---- MODULE Spec2Model ----
(***************************************************************************)
(* Write-synchronisation layer of the cardiovascular database API:         *)
(* app/crud.py (coordinator), app/database.py (store adapters),            *)
(* app/models.py (payload validation) and database_setup.py (schema and    *)
(* triggers of the SQLite system of record).                               *)
(*                                                                         *)
(* Conventions.  A table is a function from the ids of its rows to rows;   *)
(* a row and a payload are records; an Optional[...] value is a sequence   *)
(* of length 0 (None) or 1; a payload field that is None is absent from    *)
(* the payload's DOMAIN.  The REAL columns age_years and bmi hold values   *)
(* rounded to two decimals and are kept in hundredths (49.97 is 4997).     *)
(* Timestamp columns and MongoDB's _id are left out.                       *)
(***************************************************************************)
EXTENDS Integers, Sequences, FiniteSets, TLC

VARIABLES
    db,         \* the SQLite store: tables, diagnosis_log, risk_assessments,
                \* sqlite_sequence
    mongo,      \* the MongoDB store: one list of documents per collection
    procs,      \* the requests in flight, one record per worker thread
    budget,     \* operations (coordinator calls, direct writes) still to start
    committed,  \* history: every <<table, row>> a primary commit has made visible
    diag_writes, \* history: the committed INSERT / UPDATE statements on diagnoses
    http        \* the HTTP request each worker thread is serving (app/routers)

vars == <<db, mongo, procs, budget, committed, diag_writes, http>>

(***************************************************************************)
(* Bounds of the model.                                                    *)
(***************************************************************************)
\* operations started in a run of Spec (two concurrent requests)
MaxOps == 2

\* operations started in a run of SeqSpec (one request at a time)
MaxSeqOps == 3

Procs == {"p1", "p2"}

PatientIds == {1, 2}

RowIds == {1, 2}

DependentTables == {"medical_measurements", "lifestyle_factors", "diagnoses"}

Tables == {"patients"} \cup DependentTables

(***************************************************************************)
(* Optional values and small helpers.                                      *)
(***************************************************************************)
None == << >>

Some(x) == << x >>

IsNone(o) == Len(o) = 0

EmptyRecord == [c \in {} |-> 0]

Has(rec, field) == field \in DOMAIN rec

\* f with the key k dropped
Without(f, k) == [x \in (DOMAIN f) \ {k} |-> f[x]]

\* f restricted to the keys satisfying Keep
Restrict(f, S) == [x \in (DOMAIN f) \cap S |-> f[x]]

\* the fields of upd laid over rec (SQL "SET c = ?", Mongo "$set")
Overlay(rec, upd) ==
    [c \in (DOMAIN rec) \cup (DOMAIN upd) |-> IF c \in DOMAIN upd THEN upd[c] ELSE rec[c]]

(***************************************************************************)
(* Derived fields.  round(x, 2) of Python rounds to the nearest hundredth, *)
(* ties to even; num / den is the exact value of x in hundredths.          *)
(***************************************************************************)
round2(num, den) ==
    LET q == num \div den
        r == num % den
    IN  IF 2 * r < den THEN q
        ELSE IF 2 * r > den THEN q + 1
        ELSE IF q % 2 = 0 THEN q ELSE q + 1

\* round(age_days / 365.25, 2)
age_years_of(age_days) == round2(age_days * 400, 1461)

\* round(weight / ((height / 100) ** 2), 2)
bmi_of(weight, height) == round2(weight * 1000000, height * height)

(***************************************************************************)
(* Schema of the system of record (database_setup.create_sqlite_database). *)
(***************************************************************************)
IdColumn(t) ==
    CASE t = "patients" -> "patient_id"
      [] t = "medical_measurements" -> "measurement_id"
      [] t = "lifestyle_factors" -> "lifestyle_id"
      [] t = "diagnoses" -> "diagnosis_id"

\* the CHECK constraints of the CREATE TABLE statements
CheckConstraints(t, row) ==
    CASE t = "patients" ->
            /\ row.age_days > 0
            /\ row.gender \in {1, 2}
            /\ row.height > 0
            /\ row.weight > 0
      [] t = "medical_measurements" ->
            /\ row.cholesterol \in {1, 2, 3}
            /\ row.glucose \in {1, 2, 3}
      [] t = "lifestyle_factors" ->
            /\ row.smoke \in {0, 1}
            /\ row.alcohol \in {0, 1}
            /\ row.physical_activity \in {0, 1}
      [] t = "diagnoses" -> row.cardiovascular_disease \in {0, 1}

\* variant of ForeignKeysEnabled: the connection enforces the FOREIGN KEY
\* clauses, ON DELETE CASCADE included
ForeignKeysEnabled_pragma_on == TRUE

\* sqlite3.connect() is never followed by PRAGMA foreign_keys = ON, so the
\* connection runs with SQLite's default: the FOREIGN KEY clauses are parsed
\* and not enforced.
ForeignKeysEnabled == FALSE

EmptyDb ==
    [patients |-> EmptyRecord,
     medical_measurements |-> EmptyRecord,
     lifestyle_factors |-> EmptyRecord,
     diagnoses |-> EmptyRecord,
     diagnosis_log |-> << >>,
     risk_assessments |-> << >>,
     sqlite_sequence |->
         [t \in DependentTables \cup {"diagnosis_log", "risk_assessments"} |-> 0]]

\* AUTOINCREMENT: one more than the largest rowid the table ever held
NextRowId(d, t) == d.sqlite_sequence[t] + 1

\* the row the diagnosis triggers append to diagnosis_log
LogEntry(d, new_row, action_type) ==
    [log_id |-> NextRowId(d, "diagnosis_log"),
     diagnosis_id |-> new_row.diagnosis_id,
     patient_id |-> new_row.patient_id,
     action_type |-> action_type,
     cardiovascular_disease |-> new_row.cardiovascular_disease]

AppendLog(d, entry) ==
    [d EXCEPT !.diagnosis_log = Append(@, entry),
              !.sqlite_sequence["diagnosis_log"] = entry.log_id]

\* TRIGGER log_diagnosis_insert AFTER INSERT ON diagnoses FOR EACH ROW
log_diagnosis_insert(d, new_row) == AppendLog(d, LogEntry(d, new_row, "INSERT"))

\* variant of log_diagnosis_update: the trigger body copied from the INSERT trigger
log_diagnosis_update_as_insert(d, new_row) ==
    AppendLog(d, LogEntry(d, new_row, "INSERT"))

\* TRIGGER log_diagnosis_update AFTER UPDATE ON diagnoses FOR EACH ROW
log_diagnosis_update(d, new_row) == AppendLog(d, LogEntry(d, new_row, "UPDATE"))

(***************************************************************************)
(* SQL statements.  Each yields [ok, db, rowcount, lastrowid]: ok is FALSE *)
(* when the statement raises (sqlite3.IntegrityError).                     *)
(***************************************************************************)
SqlRaise(d) == [ok |-> FALSE, db |-> d, rowcount |-> 0, lastrowid |-> 0]

SqlDone(d, rowcount, lastrowid) ==
    [ok |-> TRUE, db |-> d, rowcount |-> rowcount, lastrowid |-> lastrowid]

\* the parent row a FOREIGN KEY (patient_id) REFERENCES patients needs
ForeignKeyHolds(d, t, row) ==
    \/ ~ForeignKeysEnabled
    \/ t = "patients"
    \/ row.patient_id \in DOMAIN d.patients

\* INSERT INTO patients (patient_id, ...) VALUES (?, ...)
SqlInsertPatient(d, row) ==
    IF row.patient_id \in DOMAIN d.patients \/ ~CheckConstraints("patients", row)
    THEN SqlRaise(d)
    ELSE SqlDone([d EXCEPT !.patients = (row.patient_id :> row) @@ @],
                 1, row.patient_id)

\* INSERT INTO <t> (patient_id, ...) VALUES (?, ...) on an AUTOINCREMENT table
SqlInsert(d, t, values) ==
    LET id == NextRowId(d, t)
        row == (IdColumn(t) :> id) @@ values
        d1 == [d EXCEPT ![t] = (id :> row) @@ @, !.sqlite_sequence[t] = id]
    IN  IF ~CheckConstraints(t, row) \/ ~ForeignKeyHolds(d, t, row)
        THEN SqlRaise(d)
        ELSE SqlDone(IF t = "diagnoses" THEN log_diagnosis_insert(d1, row) ELSE d1,
                     1, id)

\* variant of SqlUpdate: the statement has no WHERE clause
SqlUpdate_no_where(d, t, id, update_fields) ==
    IF id \notin DOMAIN d[t]
    THEN SqlDone(d, 0, 0)
    ELSE LET d1 == [d EXCEPT ![t] = [j \in DOMAIN @ |-> Overlay(@[j], update_fields)]]
         IN  SqlDone(IF t = "diagnoses" THEN log_diagnosis_update(d1, d1[t][id]) ELSE d1,
                     Cardinality(DOMAIN d[t]), 0)

\* UPDATE <t> SET c = ?, ... WHERE <id column> = ?
SqlUpdate(d, t, id, update_fields) ==
    IF id \notin DOMAIN d[t]
    THEN SqlDone(d, 0, 0)
    ELSE LET row == Overlay(d[t][id], update_fields)
             d1 == [d EXCEPT ![t][id] = row]
         IN  IF ~CheckConstraints(t, row)
             THEN SqlRaise(d)
             ELSE SqlDone(IF t = "diagnoses" THEN log_diagnosis_update(d1, row) ELSE d1,
                          1, 0)

\* ON DELETE CASCADE of the dependent tables, when enforced
CascadeDelete(d, patient_id) ==
    [d EXCEPT
        !.risk_assessments = SelectSeq(@, LAMBDA a : a.patient_id # patient_id),
        !.medical_measurements =
            Restrict(@, {i \in DOMAIN @ : @[i].patient_id # patient_id}),
        !.lifestyle_factors =
            Restrict(@, {i \in DOMAIN @ : @[i].patient_id # patient_id}),
        !.diagnoses =
            Restrict(@, {i \in DOMAIN @ : @[i].patient_id # patient_id})]

\* variant of SqlDelete: deleting a diagnosis also deletes its diagnosis_log rows
SqlDelete_purge_log(d, t, id) ==
    IF id \notin DOMAIN d[t]
    THEN SqlDone(d, 0, 0)
    ELSE LET d1 == [d EXCEPT ![t] = Without(@, id)]
         IN  SqlDone(IF t = "diagnoses"
                     THEN [d1 EXCEPT !.diagnosis_log =
                              SelectSeq(@, LAMBDA e : e.diagnosis_id # id)]
                     ELSE d1,
                     1, 0)

\* DELETE FROM <t> WHERE <id column> = ?
SqlDelete(d, t, id) ==
    IF id \notin DOMAIN d[t]
    THEN SqlDone(d, 0, 0)
    ELSE LET d1 == [d EXCEPT ![t] = Without(@, id)]
         IN  SqlDone(IF t = "patients" /\ ForeignKeysEnabled
                     THEN CascadeDelete(d1, id) ELSE d1,
                     1, 0)

\* SELECT * FROM <t> WHERE <id column> = ?, then results[0] if results else None
SqlSelect(d, t, id) == IF id \in DOMAIN d[t] THEN Some(d[t][id]) ELSE None

(***************************************************************************)
(* app/database.py: one connection and one transaction per call.           *)
(* fault stands for an error of the store itself while the statement or    *)
(* the commit runs (sqlite3.OperationalError: database is locked, I/O).    *)
(***************************************************************************)
\* variant of get_db_connection: the exception is swallowed after the rollback
get_db_connection_swallow(before, r, fault) ==
    [conn |-> "closed"] @@
    (IF r.ok /\ ~fault THEN r ELSE [SqlRaise(before) EXCEPT !.ok = TRUE])

\* variant of get_db_connection: the rollback does not cover diagnosis_log
get_db_connection_partial(before, r, fault) ==
    [conn |-> "closed"] @@
    (IF r.ok /\ ~fault THEN r
     ELSE [SqlRaise(before) EXCEPT
              !.db.diagnosis_log = r.db.diagnosis_log,
              !.db.sqlite_sequence = r.db.sqlite_sequence])

\* variant of get_db_connection: what the statements wrote before the error
\* is committed, then the error is raised
get_db_connection_no_rollback(before, r, fault) ==
    [conn |-> "closed"] @@ (IF r.ok /\ ~fault THEN r ELSE [r EXCEPT !.ok = FALSE])

\* with get_db_connection(): commit when the body returns, rollback and
\* re-raise when it raises; finally: conn.close()
get_db_connection(before, r, fault) ==
    [conn |-> "closed"] @@ (IF r.ok /\ ~fault THEN r ELSE SqlRaise(before))

execute_insert(d, t, values, fault) ==
    get_db_connection(d, SqlInsert(d, t, values), fault)

execute_update(d, r, fault) == get_db_connection(d, r, fault)

\* execute_query of a SELECT by id
execute_query(d, t, id) == SqlSelect(d, t, id)

\* the connection of an execute_query call once it has returned
query_conn(d) == get_db_connection(d, SqlDone(d, 0, 0), FALSE).conn

(***************************************************************************)
(* The MongoDB store (pymongo): a collection is the list of its documents  *)
(* in insertion order.  No index is created by the API: its startup path   *)
(* (database.populate_mongodb) creates none, and create_mongodb_database   *)
(* creates the unique index on patients.patient_id only when the CSV file  *)
(* is present.  Where that index exists, the insert it rejects is one of   *)
(* the failing secondary writes of mongo_logic.                            *)
(***************************************************************************)
\* the collections of the coordinator and medical_records of app/crud_mongo.py
Collections == Tables \cup {"medical_records"}

EmptyMongo == [t \in Collections |-> << >>]

Matching(docs, key, id) == {i \in 1..Len(docs) : docs[i][key] = id}

\* collection.insert_one(doc)
insert_one(m, coll, doc) == [m EXCEPT ![coll] = Append(@, doc)]

\* variant of update_one: upsert=True, a filter without a match inserts
update_one_upsert(m, coll, key, id, fields) ==
    LET hit == Matching(m[coll], key, id)
    IN  IF hit = {} THEN [m EXCEPT ![coll] = Append(@, fields)]
        ELSE LET i == CHOOSE x \in hit : \A y \in hit : x <= y
             IN  [m EXCEPT ![coll][i] = Overlay(@, fields)]

\* variant of update_one: the filter matches no document
update_one_no_match(m, coll, key, id, fields) == m

\* collection.update_one({key: id}, {"$set": fields}): the first match, no upsert
update_one(m, coll, key, id, fields) ==
    LET hit == Matching(m[coll], key, id)
    IN  IF hit = {} THEN m
        ELSE LET i == CHOOSE x \in hit : \A y \in hit : x <= y
             IN  [m EXCEPT ![coll][i] = Overlay(@, fields)]

\* collection.delete_one({key: id}): the first match
delete_one(m, coll, key, id) ==
    LET hit == Matching(m[coll], key, id)
    IN  IF hit = {} THEN m
        ELSE LET i == CHOOSE x \in hit : \A y \in hit : x <= y
             IN  [m EXCEPT ![coll] =
                     [j \in 1..(Len(@) - 1) |-> IF j < i THEN @[j] ELSE @[j + 1]]]

(***************************************************************************)
(* Payloads: instances of the pydantic models of app/models.py.            *)
(***************************************************************************)
\* PatientBase / PatientUpdate field ranges
PatientFieldsValid(patient) ==
    /\ Has(patient, "age_days") => patient.age_days > 0
    /\ Has(patient, "gender") => patient.gender \in 1..2
    /\ Has(patient, "height") => patient.height \in 1..250
    /\ Has(patient, "weight") => patient.weight \in 1..300

\* MedicalMeasurementBase / MedicalMeasurementUpdate field ranges
MeasurementFieldsValid(m) ==
    /\ Has(m, "patient_id") => m.patient_id > 0
    /\ Has(m, "ap_hi") => m.ap_hi \in 70..250
    /\ Has(m, "ap_lo") => m.ap_lo \in 40..150
    /\ Has(m, "cholesterol") => m.cholesterol \in 1..3
    /\ Has(m, "glucose") => m.glucose \in 1..3

\* @validator('ap_lo') of MedicalMeasurementBase
validate_blood_pressure(m) == ~(m.ap_lo >= m.ap_hi)

\* LifestyleFactorsBase / LifestyleFactorsUpdate field ranges
LifestyleFieldsValid(l) ==
    /\ Has(l, "patient_id") => l.patient_id > 0
    /\ Has(l, "smoke") => l.smoke \in 0..1
    /\ Has(l, "alcohol") => l.alcohol \in 0..1
    /\ Has(l, "physical_activity") => l.physical_activity \in 0..1

\* variant of DiagnosisFieldsValid: fields declared without gt/ge/le
DiagnosisFieldsValid_unconstrained(g) == TRUE

\* DiagnosisBase / DiagnosisUpdate field ranges
DiagnosisFieldsValid(g) ==
    /\ Has(g, "patient_id") => g.patient_id > 0
    /\ Has(g, "cardiovascular_disease") => g.cardiovascular_disease \in 0..1

\* PatientCreate
PatientCreates ==
    {pl \in [patient_id : PatientIds, age_days : {18250}, gender : {2},
             height : {180}, weight : {81}] : PatientFieldsValid(pl)}

\* PatientUpdate: every field optional
PatientUpdates ==
    {pl \in {EmptyRecord,
             [age_days |-> 21915],
             [gender |-> 1],
             [height |-> 160],
             [weight |-> 70]} : PatientFieldsValid(pl)}

\* MedicalMeasurementCreate: the validator rejects ap_lo >= ap_hi
MedicalMeasurementCreates ==
    {pl \in [patient_id : PatientIds, ap_hi : {120}, ap_lo : {80, 130},
             cholesterol : {1}, glucose : {1}] :
        MeasurementFieldsValid(pl) /\ validate_blood_pressure(pl)}

\* MedicalMeasurementUpdate: field ranges only
MedicalMeasurementUpdates ==
    {pl \in {EmptyRecord, [ap_lo |-> 130], [ap_hi |-> 150]} :
        MeasurementFieldsValid(pl)}

\* LifestyleFactorsCreate
LifestyleFactorsCreates ==
    {pl \in [patient_id : PatientIds, smoke : {0}, alcohol : {0},
             physical_activity : {1}] : LifestyleFieldsValid(pl)}

\* LifestyleFactorsUpdate
LifestyleFactorsUpdates ==
    {pl \in {EmptyRecord, [smoke |-> 1]} : LifestyleFieldsValid(pl)}

\* DiagnosisCreate
DiagnosisCreates ==
    {pl \in [patient_id : PatientIds, cardiovascular_disease : {0, 1}] :
        DiagnosisFieldsValid(pl)}

\* DiagnosisUpdate
DiagnosisUpdates ==
    {pl \in {EmptyRecord, [cardiovascular_disease |-> 0],
             [cardiovascular_disease |-> 1]} : DiagnosisFieldsValid(pl)}

(***************************************************************************)
(* Requests.  A request is one call of a coordinator function of           *)
(* app/crud.py on a worker thread; its steps are the store calls of that   *)
(* function, each primary call being one transaction.                      *)
(*   pc            idle, execute_update, reread, mongo, done               *)
(*   result        sql_result_dict / updated_..._dict (Optional row)       *)
(*   rowcount      rows the primary write statement changed                *)
(*   wrote         the primary write statement committed                   *)
(*   outcome       none, returned, raised                                  *)
(*   mongo_calls   secondary writes attempted by this request              *)
(*   mongo_error   the secondary attempt raised and was printed            *)
(*   conn          the primary connection the call opened last: none,      *)
(*                 open, closed                                            *)
(*   params        skip and limit of a list call                           *)
(***************************************************************************)
\* no request is being served by the worker
NoRequest == [handler |-> "none", status |-> "none", id |-> 0, payload |-> EmptyRecord]

IdleProc ==
    [pc |-> "idle", op |-> "none", table |-> "none", id |-> 0,
     update_fields |-> EmptyRecord, result |-> None, rowcount |-> 0,
     wrote |-> FALSE, outcome |-> "none", mongo_calls |-> 0,
     mongo_error |-> FALSE, conn |-> "none", params |-> EmptyRecord]

Call(op, t, id) == [IdleProc EXCEPT !.op = op, !.table = t, !.id = id]

CanStart(p) == procs[p].pc \in {"idle", "done"} /\ budget > 0

\* the function returns value (a row, None, or rows_affected > 0)
Returned(q) == [q EXCEPT !.pc = "done", !.outcome = "returned"]

\* an exception leaves the function
Raised(q) == [q EXCEPT !.pc = "done", !.outcome = "raised"]

\* "if sql_result_dict:" / "if rows_affected > 0:" before the MONGO LOGIC
ToMongoIf(q, cond) == IF cond THEN [q EXCEPT !.pc = "mongo"] ELSE Returned(q)

AllRows(d) == UNION {{<<t, d[t][i]>> : i \in DOMAIN d[t]} : t \in Tables}

DiagWrite(action_type, diagnosis_id, patient_id, cardiovascular_disease) ==
    [action_type |-> action_type, diagnosis_id |-> diagnosis_id,
     patient_id |-> patient_id, cardiovascular_disease |-> cardiovascular_disease]

\* the history variables after the transaction r of a statement on table t
History(r, t, w) ==
    /\ committed' = committed \cup AllRows(r.db)
    /\ diag_writes' =
          IF r.ok /\ t = "diagnoses" /\ r.rowcount > 0 /\ Len(w) > 0
          THEN Append(diag_writes, w[1]) ELSE diag_writes

Init ==
    /\ db = EmptyDb
    /\ mongo = EmptyMongo
    /\ procs = [p \in Procs |-> IdleProc]
    /\ budget = MaxOps
    /\ committed = {}
    /\ diag_writes = << >>
    /\ http = [p \in Procs |-> NoRequest]

(***************************************************************************)
(* Patient operations.                                                     *)
(***************************************************************************)
\* crud.create_patient, SQL LOGIC: INSERT and SELECT in one transaction
create_patient(p, patient) ==
    /\ CanStart(p)
    /\ \E fault \in BOOLEAN :
         LET row == [patient_id |-> patient.patient_id,
                     age_days |-> patient.age_days,
                     age_years |-> age_years_of(patient.age_days),
                     gender |-> patient.gender,
                     height |-> patient.height,
                     weight |-> patient.weight,
                     bmi |-> bmi_of(patient.weight, patient.height)]
             ins == SqlInsertPatient(db, row)
             sql_result_dict == SqlSelect(ins.db, "patients", patient.patient_id)
             r == get_db_connection(db, ins, fault)
             q == [Call("create", "patients", patient.patient_id) EXCEPT
                      !.conn = r.conn]
         IN  /\ db' = r.db
             /\ procs' = [procs EXCEPT ![p] =
                    IF r.ok
                    THEN [q EXCEPT !.pc = "mongo", !.result = sql_result_dict,
                                   !.rowcount = r.rowcount, !.wrote = TRUE]
                    ELSE Raised(q)]
             /\ History(r, "patients", None)
    /\ budget' = budget - 1
    /\ UNCHANGED mongo

\* crud.get_patient
get_patient(d, patient_id) == execute_query(d, "patients", patient_id)

\* variant of merged_bmi: bmi of the stored row, the payload ignored
merged_bmi_stale(patient, existing) == bmi_of(existing.weight, existing.height)

\* update_patient lines 102-110: bmi of the payload merged with the stored row
merged_bmi(patient, existing) ==
    LET height == IF Has(patient, "height") THEN patient.height ELSE existing.height
        weight == IF Has(patient, "weight") THEN patient.weight ELSE existing.weight
    IN  bmi_of(weight, height)

\* update_patient lines 81-110: the SET list, reading the stored row for bmi
patient_update_fields(patient, existing) ==
    LET f1 == IF Has(patient, "age_days")
              THEN [age_days |-> patient.age_days,
                    age_years |-> age_years_of(patient.age_days)]
              ELSE EmptyRecord
        f2 == Restrict(patient, {"gender", "height", "weight"})
        f3 == IF (Has(patient, "height") \/ Has(patient, "weight")) /\ ~IsNone(existing)
              THEN [bmi |-> merged_bmi(patient, existing[1])]
              ELSE EmptyRecord
    IN  f1 @@ f2 @@ f3

\* crud.update_patient up to "if not update_fields: return get_patient(...)"
update_patient(p, patient_id, patient) ==
    /\ CanStart(p)
    /\ LET existing == IF Has(patient, "height") \/ Has(patient, "weight")
                       THEN get_patient(db, patient_id) ELSE None
           update_fields == patient_update_fields(patient, existing)
           q == [Call("update", "patients", patient_id) EXCEPT
                    !.update_fields = update_fields,
                    !.conn = IF Has(patient, "height") \/ Has(patient, "weight")
                             THEN query_conn(db) ELSE "none"]
       IN  procs' = [procs EXCEPT ![p] =
               IF DOMAIN update_fields = {}
               THEN Returned([q EXCEPT !.result = get_patient(db, patient_id),
                                       !.conn = query_conn(db)])
               ELSE [q EXCEPT !.pc = "execute_update"]]
    /\ budget' = budget - 1
    /\ UNCHANGED <<db, mongo, committed, diag_writes>>

\* crud.update_patient, SQL LOGIC: execute_update(UPDATE patients SET ...)
update_patient_execute(p) ==
    /\ procs[p].pc = "execute_update"
    /\ \E fault \in BOOLEAN :
         LET r == execute_update(db, SqlUpdate(db, procs[p].table, procs[p].id,
                                              procs[p].update_fields), fault)
             q == [procs[p] EXCEPT !.conn = r.conn]
         IN  /\ db' = r.db
             /\ procs' = [procs EXCEPT ![p] =
                    IF r.ok
                    THEN [q EXCEPT !.pc = "reread", !.rowcount = r.rowcount,
                                   !.wrote = TRUE]
                    ELSE Raised(q)]
             /\ History(r, q.table, None)
    /\ UNCHANGED <<mongo, budget>>

\* crud.delete_patient, SQL LOGIC
delete_patient(p, patient_id) ==
    /\ CanStart(p)
    /\ \E fault \in BOOLEAN :
         LET r == execute_update(db, SqlDelete(db, "patients", patient_id), fault)
             q == [Call("delete", "patients", patient_id) EXCEPT !.conn = r.conn]
         IN  /\ db' = r.db
             /\ procs' = [procs EXCEPT ![p] =
                    IF r.ok
                    THEN ToMongoIf([q EXCEPT !.rowcount = r.rowcount, !.wrote = TRUE],
                                   r.rowcount > 0)
                    ELSE Raised(q)]
             /\ History(r, "patients", None)
    /\ budget' = budget - 1
    /\ UNCHANGED mongo

(***************************************************************************)
(* Operations on the dependent tables.  The three create, update and       *)
(* delete functions of crud.py differ in table and column names only.      *)
(***************************************************************************)
\* crud.create_<t>, SQL LOGIC: <t>_id = execute_insert(query, params)
create_dependent(p, t, payload) ==
    /\ CanStart(p)
    /\ \E fault \in BOOLEAN :
         LET r == execute_insert(db, t, payload, fault)
             q == [Call("create", t, r.lastrowid) EXCEPT !.conn = r.conn]
         IN  /\ db' = r.db
             /\ procs' = [procs EXCEPT ![p] =
                    IF r.ok
                    THEN [q EXCEPT !.pc = "reread", !.rowcount = r.rowcount,
                                   !.wrote = TRUE]
                    ELSE Raised(q)]
             /\ History(r, t,
                        IF t = "diagnoses"
                        THEN Some(DiagWrite("INSERT", r.lastrowid, payload.patient_id,
                                            payload.cardiovascular_disease))
                        ELSE None)
    /\ budget' = budget - 1
    /\ UNCHANGED mongo

\* variant of update_dependent: no early return, the UPDATE runs for a payload
\* without fields as well
update_dependent_no_early_return(p, t, id, payload) ==
    /\ CanStart(p)
    /\ LET q == [Call("update", t, id) EXCEPT !.update_fields = payload]
       IN  \E fault \in BOOLEAN :
             LET r == execute_update(db, SqlUpdate(db, t, id, payload), fault)
             IN  /\ db' = r.db
                 /\ procs' = [procs EXCEPT ![p] =
                        IF r.ok
                        THEN [q EXCEPT !.pc = "reread", !.rowcount = r.rowcount,
                                       !.wrote = TRUE, !.conn = r.conn]
                        ELSE Raised([q EXCEPT !.conn = r.conn])]
                 /\ History(r, t,
                            IF t = "diagnoses" /\ id \in DOMAIN db.diagnoses
                            THEN Some(DiagWrite("UPDATE", id,
                                                db.diagnoses[id].patient_id,
                                                db'.diagnoses[id].cardiovascular_disease))
                            ELSE None)
    /\ budget' = budget - 1
    /\ UNCHANGED mongo

\* crud.update_<t>: the SET list, the early return, then execute_update
update_dependent(p, t, id, payload) ==
    /\ CanStart(p)
    /\ LET update_fields == payload
           q == [Call("update", t, id) EXCEPT !.update_fields = update_fields]
       IN  IF DOMAIN update_fields = {}
           THEN /\ procs' = [procs EXCEPT ![p] =
                       Returned([q EXCEPT !.result = execute_query(db, t, id),
                                          !.conn = query_conn(db)])]
                /\ UNCHANGED <<db, committed, diag_writes>>
           ELSE \E fault \in BOOLEAN :
                  LET r == execute_update(db, SqlUpdate(db, t, id, update_fields), fault)
                  IN  /\ db' = r.db
                      /\ procs' = [procs EXCEPT ![p] =
                             IF r.ok
                             THEN [q EXCEPT !.pc = "reread", !.rowcount = r.rowcount,
                                            !.wrote = TRUE, !.conn = r.conn]
                             ELSE Raised([q EXCEPT !.conn = r.conn])]
                      /\ History(r, t,
                                 IF t = "diagnoses" /\ id \in DOMAIN db.diagnoses
                                 THEN Some(DiagWrite("UPDATE", id,
                                                     db.diagnoses[id].patient_id,
                                                     payload.cardiovascular_disease))
                                 ELSE None)
    /\ budget' = budget - 1
    /\ UNCHANGED mongo

\* crud.delete_<t>, SQL LOGIC
delete_dependent(p, t, id) ==
    /\ CanStart(p)
    /\ \E fault \in BOOLEAN :
         LET r == execute_update(db, SqlDelete(db, t, id), fault)
             q == [Call("delete", t, id) EXCEPT !.conn = r.conn]
         IN  /\ db' = r.db
             /\ procs' = [procs EXCEPT ![p] =
                    IF r.ok
                    THEN ToMongoIf([q EXCEPT !.rowcount = r.rowcount, !.wrote = TRUE],
                                   r.rowcount > 0)
                    ELSE Raised(q)]
             /\ History(r, t, None)
    /\ budget' = budget - 1
    /\ UNCHANGED mongo

create_medical_measurement(p) ==
    \E m \in MedicalMeasurementCreates : create_dependent(p, "medical_measurements", m)

update_medical_measurement(p) ==
    \E id \in RowIds, m \in MedicalMeasurementUpdates :
        update_dependent(p, "medical_measurements", id, m)

delete_medical_measurement(p) ==
    \E id \in RowIds : delete_dependent(p, "medical_measurements", id)

create_lifestyle_factors(p) ==
    \E l \in LifestyleFactorsCreates : create_dependent(p, "lifestyle_factors", l)

update_lifestyle_factors(p) ==
    \E id \in RowIds, l \in LifestyleFactorsUpdates :
        update_dependent(p, "lifestyle_factors", id, l)

delete_lifestyle_factors(p) ==
    \E id \in RowIds : delete_dependent(p, "lifestyle_factors", id)

create_diagnosis(p) ==
    \E g \in DiagnosisCreates : create_dependent(p, "diagnoses", g)

update_diagnosis(p) ==
    \E id \in RowIds, g \in DiagnosisUpdates : update_dependent(p, "diagnoses", id, g)

delete_diagnosis(p) ==
    \E id \in RowIds : delete_dependent(p, "diagnoses", id)

(***************************************************************************)
(* The steps the create and update functions share after the write.        *)
(***************************************************************************)
\* updated_..._dict = get_<t>(id) / sql_result_dict = get_<t>(new id)
reread(p) ==
    LET q == procs[p] IN
    /\ q.pc = "reread"
    /\ LET result == execute_query(db, q.table, q.id)
       IN  procs' = [procs EXCEPT ![p] =
               ToMongoIf([q EXCEPT !.result = result, !.conn = query_conn(db)],
                         ~IsNone(result))]
    /\ UNCHANGED <<db, mongo, budget, committed, diag_writes>>

\* the secondary write of the MONGO LOGIC block
mongo_write(m, q) ==
    CASE q.op = "create" -> insert_one(m, q.table, q.result[1])
      [] q.op = "update" -> update_one(m, q.table, IdColumn(q.table), q.id, q.result[1])
      [] q.op = "delete" -> delete_one(m, q.table, IdColumn(q.table), q.id)

\* variant of mongo_except: the exception is re-raised to the caller
mongo_except_propagate(q) ==
    Raised([q EXCEPT !.mongo_calls = @ + 1, !.mongo_error = TRUE])

\* variant of mongo_except: the secondary write is tried again
mongo_except_retry(q) ==
    [q EXCEPT !.mongo_calls = @ + 1, !.mongo_error = TRUE]

\* "except Exception as e: print(...)": the function goes on to its return
mongo_except(q) ==
    Returned([q EXCEPT !.mongo_calls = @ + 1, !.mongo_error = TRUE])

\* the try block ran to its end
mongo_done(q) == Returned([q EXCEPT !.mongo_calls = @ + 1])

\* variant of mongo_logic: the function gives up on a secondary call that
\* has not completed and returns
mongo_logic_timeout(p) ==
    LET q == procs[p] IN
    /\ q.pc = "mongo"
    /\ \E reachable \in BOOLEAN, completed \in BOOLEAN :
         IF ~completed
         THEN /\ mongo' = mongo
              /\ procs' = [procs EXCEPT ![p] = Returned(q)]
         ELSE IF reachable
         THEN /\ mongo' = mongo_write(mongo, q)
              /\ procs' = [procs EXCEPT ![p] = mongo_done(q)]
         ELSE /\ mongo' = mongo
              /\ procs' = [procs EXCEPT ![p] = mongo_except(q)]
    /\ UNCHANGED <<db, budget, committed, diag_writes>>

\* MONGO LOGIC: try: db = get_mongo_db(); db.<t>.<write>(...) except Exception
mongo_logic(p) ==
    LET q == procs[p] IN
    /\ q.pc = "mongo"
    /\ \E reachable \in BOOLEAN :
         IF reachable
         THEN /\ mongo' = mongo_write(mongo, q)
              /\ procs' = [procs EXCEPT ![p] = mongo_done(q)]
         ELSE /\ mongo' = mongo
              /\ procs' = [procs EXCEPT ![p] = mongo_except(q)]
    /\ UNCHANGED <<db, budget, committed, diag_writes>>

(***************************************************************************)
(* Reads: crud.get_<entity> and the paginated crud.get_<entities>.  The    *)
(* operators take everything a function of the module could consult: the   *)
(* primary store, the secondary store and whether it can be reached.       *)
(***************************************************************************)
RECURSIVE OrderBy(_)
\* ORDER BY <id column>: the ids in increasing order
OrderBy(ids) ==
    IF ids = {} THEN << >>
    ELSE LET least == CHOOSE x \in ids : \A y \in ids : x <= y
         IN  <<least>> \o OrderBy(ids \ {least})

\* variant of get_result: a row missing from SQL is looked up in MongoDB
get_result_read_through(d, m, reachable, t, id) ==
    IF id \in DOMAIN d[t] THEN Some(d[t][id])
    ELSE IF reachable /\ Matching(m[t], IdColumn(t), id) # {}
    THEN Some(m[t][CHOOSE i \in Matching(m[t], IdColumn(t), id) : TRUE])
    ELSE None

\* get_<entity>(id): results = execute_query("SELECT * FROM <t> WHERE <id> = ?");
\* return results[0] if results else None
get_result(d, m, reachable, t, id) == execute_query(d, t, id)

\* get_<entities>(skip, limit): execute_query("SELECT * FROM <t> ORDER BY <id>
\* LIMIT ? OFFSET ?", (limit, skip))
list_result(d, m, reachable, t, skip, limit) ==
    LET ids == OrderBy(DOMAIN d[t])
        last == IF skip + limit < Len(ids) THEN skip + limit ELSE Len(ids)
    IN  [i \in 1..(IF last > skip THEN last - skip ELSE 0) |-> d[t][ids[skip + i]]]

\* a call of crud.get_patient / get_medical_measurement / get_lifestyle_factors /
\* get_diagnosis
get_entity(p, t, id) ==
    /\ CanStart(p)
    /\ \E reachable \in BOOLEAN :
         procs' = [procs EXCEPT ![p] =
             Returned([Call("get", t, id) EXCEPT
                          !.conn = query_conn(db),
                          !.result = get_result(db, mongo, reachable, t, id)])]
    /\ budget' = budget - 1
    /\ UNCHANGED <<db, mongo, committed, diag_writes>>

\* a call of crud.get_patients / get_medical_measurements /
\* get_all_lifestyle_factors / get_all_diagnoses
list_entities(p, t, skip, limit) ==
    /\ CanStart(p)
    /\ \E reachable \in BOOLEAN :
         procs' = [procs EXCEPT ![p] =
             Returned([Call("list", t, 0) EXCEPT
                          !.conn = query_conn(db),
                          !.params = [skip |-> skip, limit |-> limit],
                          !.result = list_result(db, mongo, reachable, t, skip, limit)])]
    /\ budget' = budget - 1
    /\ UNCHANGED <<db, mongo, committed, diag_writes>>

(***************************************************************************)
(* app/routers/patients.py: the HTTP handlers.  A handler reads the        *)
(* patient first (its existence check, one transaction of its own) and     *)
(* then calls the coordinator; the response is the handler's mapping of    *)
(* what the coordinator returned or raised.                                *)
(*   status   none, checked (the check passed, the coordinator call is     *)
(*            next), called, rejected (HTTPException raised by the check)  *)
(***************************************************************************)
Request(handler, id, payload, status) ==
    [handler |-> handler, status |-> status, id |-> id, payload |-> payload]

\* the worker is free to take the next request
CanServe(p) == CanStart(p) /\ http[p].status # "checked"

\* POST /patients/: existing = crud.get_patient(patient.patient_id);
\* if existing: raise HTTPException(400, "... already exists")
router_create_patient(p, patient) ==
    /\ CanServe(p)
    /\ LET existing == get_patient(db, patient.patient_id)
       IN  http' = [http EXCEPT ![p] =
               Request("create_patient", patient.patient_id, patient,
                       IF ~IsNone(existing) THEN "rejected" ELSE "checked")]
    /\ UNCHANGED <<db, mongo, procs, budget, committed, diag_writes>>

\* POST /patients/: result = crud.create_patient(patient)
router_create_patient_call(p) ==
    /\ http[p].handler = "create_patient"
    /\ http[p].status = "checked"
    /\ create_patient(p, http[p].payload)
    /\ http' = [http EXCEPT ![p].status = "called"]

\* PUT /patients/{patient_id}: existing = crud.get_patient(patient_id);
\* if not existing: raise HTTPException(404)
router_update_patient(p, patient_id, patient) ==
    /\ CanServe(p)
    /\ LET existing == get_patient(db, patient_id)
       IN  http' = [http EXCEPT ![p] =
               Request("update_patient", patient_id, patient,
                       IF IsNone(existing) THEN "rejected" ELSE "checked")]
    /\ UNCHANGED <<db, mongo, procs, budget, committed, diag_writes>>

\* PUT /patients/{patient_id}: updated_patient = crud.update_patient(...)
router_update_patient_call(p) ==
    /\ http[p].handler = "update_patient"
    /\ http[p].status = "checked"
    /\ update_patient(p, http[p].id, http[p].payload)
    /\ http' = [http EXCEPT ![p].status = "called"]

\* DELETE /patients/{patient_id}: deleted = crud.delete_patient(patient_id)
router_delete_patient(p, patient_id) ==
    /\ CanServe(p)
    /\ delete_patient(p, patient_id)
    /\ http' = [http EXCEPT ![p] =
                   Request("delete_patient", patient_id, EmptyRecord, "called")]

\* the response has been produced
Answered(p) ==
    \/ http[p].status = "rejected"
    \/ http[p].status = "called" /\ procs[p].pc = "done"

\* the status code of the response.  An exception of the coordinator is
\* turned into 500 by "except Exception" (and by the framework for DELETE);
\* a None returned under response_model=PatientResponse fails the
\* framework's response validation, which is a 500 as well.
HttpStatus(p) ==
    CASE ~Answered(p) -> "pending"
      [] http[p].status = "rejected" ->
            IF http[p].handler = "create_patient" THEN "400" ELSE "404"
      [] OTHER ->
            IF procs[p].outcome = "raised" THEN "500"
            ELSE CASE http[p].handler = "create_patient" -> "201"
                   [] http[p].handler = "update_patient" ->
                         IF IsNone(procs[p].result) THEN "500" ELSE "200"
                   [] http[p].handler = "delete_patient" ->
                         IF procs[p].rowcount > 0 THEN "200" ELSE "404"

(***************************************************************************)
(* database_setup.calculate_risk_score: the "stored procedure".  It opens  *)
(* its own connection (sqlite3.connect, no context manager), reads the     *)
(* patient joined with its measurements and lifestyle rows, and appends    *)
(* the score to risk_assessments.                                          *)
(***************************************************************************)
\* SELECT ... FROM patients p JOIN medical_measurements m JOIN
\* lifestyle_factors l WHERE p.patient_id = ?: the rows of the join
RiskJoin(d, patient_id) ==
    IF patient_id \notin DOMAIN d.patients THEN {}
    ELSE {[p |-> d.patients[patient_id],
           m |-> d.medical_measurements[i],
           l |-> d.lifestyle_factors[j]] :
             i \in {x \in DOMAIN d.medical_measurements :
                        d.medical_measurements[x].patient_id = patient_id},
             j \in {x \in DOMAIN d.lifestyle_factors :
                        d.lifestyle_factors[x].patient_id = patient_id}}

\* variant of risk_score_of: the age and pressure thresholds are inclusive
risk_score_of_inclusive(age_years, bmi, ap_hi, ap_lo, cholesterol, glucose, smoke, alcohol, physical_activity) ==
      (IF age_years >= 5500 THEN 30
       ELSE IF age_years >= 4500 THEN 20
       ELSE IF age_years >= 3500 THEN 10 ELSE 0)
    + (IF bmi > 3000 THEN 25 ELSE IF bmi > 2500 THEN 15 ELSE 0)
    + (IF ap_hi >= 140 \/ ap_lo >= 90 THEN 20
       ELSE IF ap_hi >= 130 \/ ap_lo >= 80 THEN 10 ELSE 0)
    + (IF cholesterol = 3 THEN 15 ELSE IF cholesterol = 2 THEN 10 ELSE 0)
    + (IF glucose = 3 THEN 15 ELSE IF glucose = 2 THEN 10 ELSE 0)
    + (IF smoke = 1 THEN 15 ELSE 0)
    + (IF alcohol = 1 THEN 5 ELSE 0)
    + (IF physical_activity = 0 THEN 10 ELSE 0)

\* risk_score = 0 and the chain of "risk_score +=" statements; age_years and
\* bmi are in hundredths
risk_score_of(age_years, bmi, ap_hi, ap_lo, cholesterol, glucose, smoke, alcohol, physical_activity) ==
      (IF age_years > 5500 THEN 30
       ELSE IF age_years > 4500 THEN 20
       ELSE IF age_years > 3500 THEN 10 ELSE 0)
    + (IF bmi > 3000 THEN 25 ELSE IF bmi > 2500 THEN 15 ELSE 0)
    + (IF ap_hi > 140 \/ ap_lo > 90 THEN 20
       ELSE IF ap_hi > 130 \/ ap_lo > 80 THEN 10 ELSE 0)
    + (IF cholesterol = 3 THEN 15 ELSE IF cholesterol = 2 THEN 10 ELSE 0)
    + (IF glucose = 3 THEN 15 ELSE IF glucose = 2 THEN 10 ELSE 0)
    + (IF smoke = 1 THEN 15 ELSE 0)
    + (IF alcohol = 1 THEN 5 ELSE 0)
    + (IF physical_activity = 0 THEN 10 ELSE 0)

\* variant of risk_level_of: the HIGH and MODERATE branches exchanged
risk_level_of_exchanged(risk_score) ==
    IF risk_score >= 70 THEN "CRITICAL"
    ELSE IF risk_score >= 50 THEN "MODERATE"
    ELSE IF risk_score >= 30 THEN "HIGH"
    ELSE "LOW"

\* if risk_score >= 70: ... elif >= 50: ... elif >= 30: ... else
risk_level_of(risk_score) ==
    IF risk_score >= 70 THEN "CRITICAL"
    ELSE IF risk_score >= 50 THEN "HIGH"
    ELSE IF risk_score >= 30 THEN "MODERATE"
    ELSE "LOW"

\* variant of SqlInsertAssessment: one row per patient, the earlier one replaced
SqlInsertAssessment_replace(d, patient_id, risk_score, risk_level) ==
    LET id == NextRowId(d, "risk_assessments")
        row == [assessment_id |-> id, patient_id |-> patient_id,
                risk_score |-> risk_score, risk_level |-> risk_level]
    IN  SqlDone([d EXCEPT
                    !.risk_assessments =
                        Append(SelectSeq(@, LAMBDA a : a.patient_id # patient_id), row),
                    !.sqlite_sequence["risk_assessments"] = id],
                1, id)

\* INSERT INTO risk_assessments (patient_id, risk_score, risk_level) VALUES (?, ?, ?)
SqlInsertAssessment(d, patient_id, risk_score, risk_level) ==
    LET id == NextRowId(d, "risk_assessments")
        row == [assessment_id |-> id, patient_id |-> patient_id,
                risk_score |-> risk_score, risk_level |-> risk_level]
    IN  IF ~ForeignKeyHolds(d, "risk_assessments", row)
        THEN SqlRaise(d)
        ELSE SqlDone([d EXCEPT !.risk_assessments = Append(@, row),
                               !.sqlite_sequence["risk_assessments"] = id],
                     1, id)

\* variant of score_row: a patient without a joined row is scored from zeros
score_row_partial(d, patient_id) ==
    IF RiskJoin(d, patient_id) = {}
    THEN {[p |-> [age_years |-> 0, bmi |-> 0],
           m |-> [ap_hi |-> 0, ap_lo |-> 0, cholesterol |-> 1, glucose |-> 1],
           l |-> [smoke |-> 0, alcohol |-> 0, physical_activity |-> 1]]}
    ELSE RiskJoin(d, patient_id)

\* result = cursor.fetchone(): a row of the join (the order is SQLite's), or
\* no row
score_row(d, patient_id) == RiskJoin(d, patient_id)

\* calculate_risk_score(patient_id); fault is an error of the store while the
\* SELECT or the INSERT runs: the exception leaves the function between
\* sqlite3.connect and conn.close()
calculate_risk_score(p, patient_id) ==
    /\ CanStart(p)
    /\ LET q == [Call("score", "risk_assessments", patient_id) EXCEPT !.conn = "open"]
           rows == score_row(db, patient_id)
       IN  \E fault \in BOOLEAN :
             IF fault
             THEN /\ db' = db
                  /\ procs' = [procs EXCEPT ![p] = Raised(q)]
             ELSE IF rows = {}
             THEN /\ db' = db
                  /\ procs' = [procs EXCEPT ![p] =
                                  Returned([q EXCEPT !.conn = "closed"])]
             ELSE \E result \in rows :
                    LET risk_score ==
                            risk_score_of(result.p.age_years, result.p.bmi,
                                          result.m.ap_hi, result.m.ap_lo,
                                          result.m.cholesterol, result.m.glucose,
                                          result.l.smoke, result.l.alcohol,
                                          result.l.physical_activity)
                        risk_level == risk_level_of(risk_score)
                        r == SqlInsertAssessment(db, patient_id, risk_score, risk_level)
                    IN  /\ db' = r.db
                        /\ procs' = [procs EXCEPT ![p] =
                              IF r.ok
                              THEN Returned([q EXCEPT
                                       !.conn = "closed", !.wrote = TRUE,
                                       !.rowcount = r.rowcount,
                                       !.result = Some([risk_score |-> risk_score,
                                                        risk_level |-> risk_level])])
                              ELSE Raised(q)]
    /\ budget' = budget - 1
    /\ committed' = committed \cup AllRows(db')
    /\ UNCHANGED <<mongo, diag_writes>>

(***************************************************************************)
(* Writes issued against the database file directly (test_db.test_trigger).*)
(***************************************************************************)
TestPatientId == 99999

\* INSERT INTO diagnoses (patient_id, cardiovascular_disease) VALUES (99999, 1); commit
test_trigger_insert ==
    /\ budget > 0
    /\ LET values == [patient_id |-> TestPatientId, cardiovascular_disease |-> 1]
           r == SqlInsert(db, "diagnoses", values)
       IN  /\ r.ok
           /\ db' = r.db
           /\ History(r, "diagnoses",
                      Some(DiagWrite("INSERT", r.lastrowid, values.patient_id,
                                     values.cardiovascular_disease)))
    /\ budget' = budget - 1
    /\ UNCHANGED <<mongo, procs>>

\* DELETE FROM diagnoses WHERE patient_id = 99999; commit
test_trigger_delete ==
    /\ budget > 0
    /\ \E i \in DOMAIN db.diagnoses : db.diagnoses[i].patient_id = TestPatientId
    /\ db' = [db EXCEPT !.diagnoses =
                 Restrict(@, {i \in DOMAIN @ : @[i].patient_id # TestPatientId})]
    /\ committed' = committed \cup AllRows(db')
    /\ budget' = budget - 1
    /\ UNCHANGED <<mongo, procs, diag_writes>>

\* the steps of one worker thread
Step(p) ==
    \/ \E patient \in PatientCreates : create_patient(p, patient)
    \/ \E id \in PatientIds, patient \in PatientUpdates : update_patient(p, id, patient)
    \/ update_patient_execute(p)
    \/ \E id \in PatientIds : delete_patient(p, id)
    \/ create_medical_measurement(p)
    \/ update_medical_measurement(p)
    \/ delete_medical_measurement(p)
    \/ create_lifestyle_factors(p)
    \/ update_lifestyle_factors(p)
    \/ delete_lifestyle_factors(p)
    \/ create_diagnosis(p)
    \/ update_diagnosis(p)
    \/ delete_diagnosis(p)
    \/ reread(p)
    \/ mongo_logic(p)

DirectWrite == test_trigger_insert \/ test_trigger_delete

\* concurrent requests, any interleaving of their store calls
Next == ((\E p \in Procs : Step(p)) \/ DirectWrite) /\ UNCHANGED http

Spec == Init /\ [][Next]_vars

\* the operations of a run of LiveSpec
MaxLiveOps == 2

LiveInit ==
    /\ db = EmptyDb
    /\ mongo = EmptyMongo
    /\ procs = [p \in Procs |-> IdleProc]
    /\ budget = MaxLiveOps
    /\ committed = {}
    /\ diag_writes = << >>
    /\ http = [p \in Procs |-> NoRequest]

\* a call to a store that the request p is waiting for completes: the
\* UPDATE or the re-read of the primary store, or the secondary write
StoreCall(p) ==
    (update_patient_execute(p) \/ reread(p) \/ mongo_logic(p)) /\ UNCHANGED http

\* concurrent requests on patients and diagnoses
LiveNext ==
    /\ \E p \in Procs :
          \/ \E patient \in PatientCreates : create_patient(p, patient)
          \/ \E id \in PatientIds, patient \in PatientUpdates : update_patient(p, id, patient)
          \/ \E id \in PatientIds : delete_patient(p, id)
          \/ create_diagnosis(p)
          \/ update_diagnosis(p)
          \/ delete_diagnosis(p)
          \/ update_patient_execute(p)
          \/ reread(p)
          \/ mongo_logic(p)
    /\ UNCHANGED http

\* every store call eventually completes (returns or raises)
LiveSpec == LiveInit /\ [][LiveNext]_vars /\ \A p \in Procs : WF_vars(StoreCall(p))

\* one request at a time: each call returns before the next one starts
SeqInit ==
    /\ db = EmptyDb
    /\ mongo = EmptyMongo
    /\ procs = [p \in Procs |-> IdleProc]
    /\ budget = MaxSeqOps
    /\ committed = {}
    /\ diag_writes = << >>
    /\ http = [p \in Procs |-> NoRequest]

SeqNext == (Step("p1") \/ DirectWrite) /\ UNCHANGED http

SeqSpec == SeqInit /\ [][SeqNext]_vars

\* one request at a time, the coordinator alone, every secondary call succeeds
MirrorNext ==
    /\ Step("p1")
    /\ \A p \in Procs : ~procs'[p].mongo_error
    /\ UNCHANGED http

MirrorSpec == SeqInit /\ [][MirrorNext]_vars

(***************************************************************************)
(* Risk scoring over a populated database: the state the scoring script    *)
(* finds after patients, measurements and lifestyle rows were created.     *)
(***************************************************************************)
\* operations started in a run of ScoreFnSpec
MaxScoreFnOps == 1

\* operations started in a run of ScoreSpec
MaxScoreOps == 3

\* the row crud.create_patient inserts for a PatientCreate
PatientRow(patient) ==
    [patient_id |-> patient.patient_id,
     age_days |-> patient.age_days,
     age_years |-> age_years_of(patient.age_days),
     gender |-> patient.gender,
     height |-> patient.height,
     weight |-> patient.weight,
     bmi |-> bmi_of(patient.weight, patient.height)]

\* the stores after create_patient, create_medical_measurement and
\* create_lifestyle_factors of one patient ran on the stores s
Seeded(s, patient, m, l) ==
    LET d1 == SqlInsertPatient(s.db, PatientRow(patient)).db
        d2 == SqlInsert(d1, "medical_measurements", m)
        d3 == SqlInsert(d2.db, "lifestyle_factors", l)
        m1 == insert_one(s.mongo, "patients", d1.patients[patient.patient_id])
        m2 == insert_one(m1, "medical_measurements",
                         d2.db.medical_measurements[d2.lastrowid])
        m3 == insert_one(m2, "lifestyle_factors",
                         d3.db.lifestyle_factors[d3.lastrowid])
    IN  [db |-> d3.db, mongo |-> m3]

\* PatientCreate payloads around the age and bmi thresholds of the score:
\* age_years 35.0, 35.01, 45.0, 45.01, 55.0, 55.01, 60.0 and, the height
\* being 2 m, bmi 25.0, 25.25, 30.0, 30.25, 32.0
ScorePatients ==
    {pl \in [patient_id : {1},
             age_days : {12783, 12787, 16436, 16440, 20088, 20092, 21915},
             gender : {2}, height : {200},
             weight : {100, 101, 120, 121, 128}] : PatientFieldsValid(pl)}

\* MedicalMeasurementCreate payloads around the pressure thresholds
ScoreMeasurements ==
    {pl \in [patient_id : {1}, ap_hi : {130, 131, 140, 141, 150},
             ap_lo : {80, 81, 90, 91, 95},
             cholesterol : 1..3, glucose : 1..3] :
        /\ MeasurementFieldsValid(pl) /\ validate_blood_pressure(pl)
        /\ (pl.ap_hi = 150) = (pl.ap_lo = 95)}

\* LifestyleFactorsCreate payloads
ScoreLifestyles ==
    {pl \in [patient_id : {1}, smoke : 0..1, alcohol : 0..1,
             physical_activity : 0..1] : LifestyleFieldsValid(pl)}

ScoreFnInit ==
    /\ \E patient \in ScorePatients, m \in ScoreMeasurements, l \in ScoreLifestyles :
         LET s == Seeded([db |-> EmptyDb, mongo |-> EmptyMongo], patient, m, l)
         IN  db = s.db /\ mongo = s.mongo
    /\ procs = [p \in Procs |-> IdleProc]
    /\ budget = MaxScoreFnOps
    /\ committed = AllRows(db)
    /\ diag_writes = << >>
    /\ http = [p \in Procs |-> NoRequest]

ScoreFnNext == calculate_risk_score("p1", 1) /\ UNCHANGED http

\* the scoring function applied to every combination of threshold inputs
ScoreFnSpec == ScoreFnInit /\ [][ScoreFnNext]_vars

\* the first PatientCreate / MedicalMeasurementCreate / LifestyleFactorsCreate
\* payload of a patient id
SeedOf(patient_id) ==
    [patient |-> CHOOSE pl \in PatientCreates : pl.patient_id = patient_id,
     m |-> CHOOSE pl \in MedicalMeasurementCreates : pl.patient_id = patient_id,
     l |-> CHOOSE pl \in LifestyleFactorsCreates : pl.patient_id = patient_id]

\* patient 1 is fully recorded; patient 2 is fully recorded or unknown
ScoreInit ==
    /\ \E both \in BOOLEAN :
         LET s1 == Seeded([db |-> EmptyDb, mongo |-> EmptyMongo],
                          SeedOf(1).patient, SeedOf(1).m, SeedOf(1).l)
             s2 == Seeded(s1, SeedOf(2).patient, SeedOf(2).m, SeedOf(2).l)
             s == IF both THEN s2 ELSE s1
         IN  db = s.db /\ mongo = s.mongo
    /\ procs = [p \in Procs |-> IdleProc]
    /\ budget = MaxScoreOps
    /\ committed = AllRows(db)
    /\ diag_writes = << >>
    /\ http = [p \in Procs |-> NoRequest]

\* the scoring script and the coordinator, one call at a time
ScoreNext ==
    /\ \/ \E id \in PatientIds : calculate_risk_score("p1", id)
       \/ \E patient \in PatientCreates : create_patient("p1", patient)
       \/ \E id \in PatientIds : delete_patient("p1", id)
       \/ create_medical_measurement("p1")
       \/ delete_medical_measurement("p1")
       \/ create_lifestyle_factors("p1")
       \/ delete_lifestyle_factors("p1")
       \/ reread("p1")
       \/ mongo_logic("p1")
    /\ UNCHANGED http

ScoreSpec == ScoreInit /\ [][ScoreNext]_vars

\* operations started in a run of RouterSpec
MaxRouterOps == 2

\* the database is empty or holds patient 1
RouterInit ==
    /\ \E seeded \in BOOLEAN :
         LET row == PatientRow(SeedOf(1).patient)
         IN  IF seeded
             THEN /\ db = SqlInsertPatient(EmptyDb, row).db
                  /\ mongo = insert_one(EmptyMongo, "patients", row)
             ELSE /\ db = EmptyDb
                  /\ mongo = EmptyMongo
    /\ procs = [p \in Procs |-> IdleProc]
    /\ budget = MaxRouterOps
    /\ committed = AllRows(db)
    /\ diag_writes = << >>
    /\ http = [p \in Procs |-> NoRequest]

\* the steps of one worker thread serving requests on /patients
RouterStep(p) ==
    \/ \E patient \in PatientCreates : router_create_patient(p, patient)
    \/ router_create_patient_call(p)
    \/ \E id \in PatientIds, patient \in PatientUpdates :
           router_update_patient(p, id, patient)
    \/ router_update_patient_call(p)
    \/ \E id \in PatientIds : router_delete_patient(p, id)
    \/ update_patient_execute(p) /\ UNCHANGED http
    \/ reread(p) /\ UNCHANGED http
    \/ mongo_logic(p) /\ UNCHANGED http

RouterNext == \E p \in Procs : RouterStep(p)

\* concurrent HTTP requests on the patients router
RouterSpec == RouterInit /\ [][RouterNext]_vars

(***************************************************************************)
(* The POST handlers of app/routers/medical_measurements.py,               *)
(* lifestyle_factors.py and diagnoses.py: the patient is looked up, then   *)
(* the coordinator creates the row.                                        *)
(***************************************************************************)
CreateHandler(t) ==
    CASE t = "medical_measurements" -> "create_medical_measurement"
      [] t = "lifestyle_factors" -> "create_lifestyle_factors"
      [] t = "diagnoses" -> "create_diagnosis"

CreatePayloads(t) ==
    CASE t = "medical_measurements" -> MedicalMeasurementCreates
      [] t = "lifestyle_factors" -> LifestyleFactorsCreates
      [] t = "diagnoses" -> DiagnosisCreates

\* patient = crud.get_patient(<payload>.patient_id);
\* if not patient: raise HTTPException(404, "Patient not found")
router_create_dependent(p, t, payload) ==
    /\ CanServe(p)
    /\ LET patient == get_patient(db, payload.patient_id)
       IN  http' = [http EXCEPT ![p] =
               Request(CreateHandler(t), payload.patient_id, payload,
                       IF IsNone(patient) THEN "rejected" ELSE "checked")]
    /\ UNCHANGED <<db, mongo, procs, budget, committed, diag_writes>>

\* return crud.create_<dependent>(<payload>)
router_create_dependent_call(p, t) ==
    /\ http[p].handler = CreateHandler(t)
    /\ http[p].status = "checked"
    /\ create_dependent(p, t, http[p].payload)
    /\ http' = [http EXCEPT ![p].status = "called"]

\* coordinator calls started in a run of DependentSpec
MaxDependentOps == 2

DependentInit ==
    /\ \E seeded \in BOOLEAN :
         LET row == PatientRow(SeedOf(1).patient)
         IN  IF seeded
             THEN /\ db = SqlInsertPatient(EmptyDb, row).db
                  /\ mongo = insert_one(EmptyMongo, "patients", row)
             ELSE /\ db = EmptyDb
                  /\ mongo = EmptyMongo
    /\ procs = [p \in Procs |-> IdleProc]
    /\ budget = MaxDependentOps
    /\ committed = AllRows(db)
    /\ diag_writes = << >>
    /\ http = [p \in Procs |-> NoRequest]

\* the steps of one worker thread serving creates of dependents and
\* creates and deletes of patients
DependentStep(p) ==
    \/ \E t \in DependentTables :
           \E payload \in CreatePayloads(t) : router_create_dependent(p, t, payload)
    \/ \E t \in DependentTables : router_create_dependent_call(p, t)
    \/ \E patient \in PatientCreates : router_create_patient(p, patient)
    \/ router_create_patient_call(p)
    \/ \E id \in PatientIds : router_delete_patient(p, id)
    \/ reread(p) /\ UNCHANGED http
    \/ mongo_logic(p) /\ UNCHANGED http

DependentNext == \E p \in Procs : DependentStep(p)

\* concurrent HTTP requests creating dependents and deleting patients
DependentSpec == DependentInit /\ [][DependentNext]_vars

\* operations started in a run of ReadSpec
MaxReadOps == 3

\* the largest OFFSET and LIMIT of a list call
MaxSkip == 1

MaxLimit == 2

ReadInit ==
    /\ db = EmptyDb
    /\ mongo = EmptyMongo
    /\ procs = [p \in Procs |-> IdleProc]
    /\ budget = MaxReadOps
    /\ committed = {}
    /\ diag_writes = << >>
    /\ http = [p \in Procs |-> NoRequest]

\* writes of the coordinator, whose secondary half may fail, and reads
ReadNext ==
    /\ \/ \E patient \in PatientCreates : create_patient("p1", patient)
       \/ \E id \in PatientIds : delete_patient("p1", id)
       \/ create_diagnosis("p1")
       \/ delete_diagnosis("p1")
       \/ reread("p1")
       \/ mongo_logic("p1")
       \/ \E t \in {"patients", "diagnoses"}, id \in RowIds : get_entity("p1", t, id)
       \/ \E t \in {"patients", "diagnoses"}, skip \in 0..MaxSkip, limit \in 1..MaxLimit :
              list_entities("p1", t, skip, limit)
    /\ UNCHANGED http

ReadSpec == ReadInit /\ [][ReadNext]_vars

(***************************************************************************)
(* Scoring a patient who has several measurement or lifestyle rows: each   *)
(* create_medical_measurement / create_lifestyle_factors adds a row, and   *)
(* the SELECT of calculate_risk_score joins all of them.                   *)
(***************************************************************************)
JoinMeasurements ==
    {pl \in [patient_id : {1}, ap_hi : {120, 150}, ap_lo : {80},
             cholesterol : {1, 3}, glucose : {1}] :
        MeasurementFieldsValid(pl) /\ validate_blood_pressure(pl)}

JoinLifestyles ==
    {pl \in [patient_id : {1}, smoke : 0..1, alcohol : {0},
             physical_activity : {1}] : LifestyleFieldsValid(pl)}

\* the operations of a run of ScoreJoinSpec
MaxJoinOps == 3

\* patient 1 with one measurement row and one lifestyle row
ScoreJoinInit ==
    /\ \E m \in JoinMeasurements, l \in JoinLifestyles :
         LET s == Seeded([db |-> EmptyDb, mongo |-> EmptyMongo], SeedOf(1).patient, m, l)
         IN  db = s.db /\ mongo = s.mongo
    /\ procs = [p \in Procs |-> IdleProc]
    /\ budget = MaxJoinOps
    /\ committed = AllRows(db)
    /\ diag_writes = << >>
    /\ http = [p \in Procs |-> NoRequest]

\* further rows of the patient are recorded, the patient is scored
ScoreJoinNext ==
    /\ \/ calculate_risk_score("p1", 1)
       \/ \E m \in JoinMeasurements : create_dependent("p1", "medical_measurements", m)
       \/ \E l \in JoinLifestyles : create_dependent("p1", "lifestyle_factors", l)
       \/ reread("p1")
       \/ mongo_logic("p1")
    /\ UNCHANGED http

ScoreJoinSpec == ScoreJoinInit /\ [][ScoreJoinNext]_vars

(***************************************************************************)
(* The secondary store served directly: the reads of app/crud_mongo.py     *)
(* behind app/routers/mongo_patients.py and mongo_medical_records.py, and  *)
(* the health checks of app/main.py and app/routers/mongo_stats.py.        *)
(* reachable is whether the store answers the calls of the request: when   *)
(* it does not, get_mongo_db() (first use) or the driver call raises.      *)
(***************************************************************************)
\* get_mongo_db(): the database handle, or the exception of the client
get_mongo_db(m, reachable) == [ok |-> reachable, db |-> m]

\* collection.find_one({"patient_id": patient_id})
find_one(m, coll, patient_id) ==
    LET hit == Matching(m[coll], "patient_id", patient_id)
    IN  IF hit = {} THEN None
        ELSE Some(m[coll][CHOOSE x \in hit : \A y \in hit : x <= y])

RECURSIVE SortByPatientId(_, _)
\* cursor.sort("patient_id", 1): the positions of docs by patient_id, equal
\* keys in insertion order
SortByPatientId(docs, positions) ==
    IF positions = {} THEN << >>
    ELSE LET least == CHOOSE x \in positions : \A y \in positions :
                          \/ docs[x].patient_id < docs[y].patient_id
                          \/ docs[x].patient_id = docs[y].patient_id /\ x <= y
         IN  <<docs[least]>> \o SortByPatientId(docs, positions \ {least})

\* cursor.skip(skip).limit(limit)
Page(docs, skip, limit) ==
    LET last == IF skip + limit < Len(docs) THEN skip + limit ELSE Len(docs)
    IN  [i \in 1..(IF last > skip THEN last - skip ELSE 0) |-> docs[skip + i]]

\* crud_mongo.get_patient_mongo
get_patient_mongo(m, reachable, patient_id) ==
    LET c == get_mongo_db(m, reachable)
    IN  [ok |-> c.ok, value |-> IF c.ok THEN find_one(c.db, "patients", patient_id) ELSE None]

\* crud_mongo.get_patients_mongo
get_patients_mongo(m, reachable, skip, limit) ==
    LET c == get_mongo_db(m, reachable)
    IN  [ok |-> c.ok,
         value |-> IF c.ok
                   THEN Page(SortByPatientId(c.db.patients, DOMAIN c.db.patients), skip, limit)
                   ELSE << >>]

\* crud_mongo.get_medical_record_mongo
get_medical_record_mongo(m, reachable, patient_id) ==
    LET c == get_mongo_db(m, reachable)
    IN  [ok |-> c.ok,
         value |-> IF c.ok THEN find_one(c.db, "medical_records", patient_id) ELSE None]

\* crud_mongo.get_medical_records_mongo
get_medical_records_mongo(m, reachable, skip, limit) ==
    LET c == get_mongo_db(m, reachable)
    IN  [ok |-> c.ok,
         value |-> IF c.ok
                   THEN Page(SortByPatientId(c.db.medical_records,
                                             DOMAIN c.db.medical_records), skip, limit)
                   ELSE << >>]

\* crud_mongo.search_patients_by_disease_mongo:
\* find({"diagnosis.cardiovascular_disease": has_disease}).skip(skip).limit(limit)
search_patients_by_disease_mongo(m, reachable, has_disease, skip, limit) ==
    LET c == get_mongo_db(m, reachable)
        match(doc) == /\ Has(doc, "diagnosis")
                      /\ Has(doc.diagnosis, "cardiovascular_disease")
                      /\ doc.diagnosis.cardiovascular_disease = has_disease
    IN  [ok |-> c.ok,
         value |-> IF c.ok
                   THEN Page(SelectSeq(c.db.medical_records, match), skip, limit)
                   ELSE << >>]

\* a handler without try/except around the call r of crud_mongo: the
\* exception of the call leaves the handler (status 500); a missing
\* document is 404 where the handler tests "if not <document>"
Serve(p, handler, r, reachable, not_found) ==
    /\ CanStart(p)
    /\ LET q == [Call(handler, "none", 0) EXCEPT
                    !.params = [reachable |-> reachable,
                                status |-> IF ~r.ok THEN "500"
                                           ELSE IF not_found THEN "404" ELSE "200"],
                    !.result = IF r.ok /\ ~not_found THEN <<r.value>> ELSE None]
       IN  procs' = [procs EXCEPT ![p] = IF r.ok THEN Returned(q) ELSE Raised(q)]
    /\ budget' = budget - 1
    /\ UNCHANGED <<db, mongo, committed, diag_writes>>

\* GET /mongo/patients/{patient_id}
read_patient_from_mongodb(p, patient_id) ==
    \E reachable \in BOOLEAN :
        LET r == get_patient_mongo(mongo, reachable, patient_id)
        IN  Serve(p, "read_patient_from_mongodb", r, reachable, IsNone(r.value))

\* GET /mongo/patients/
read_patients_from_mongodb(p, skip, limit) ==
    \E reachable \in BOOLEAN :
        Serve(p, "read_patients_from_mongodb",
              get_patients_mongo(mongo, reachable, skip, limit), reachable, FALSE)

\* GET /mongo/medical-records/{patient_id}
read_medical_record_from_mongodb(p, patient_id) ==
    \E reachable \in BOOLEAN :
        LET r == get_medical_record_mongo(mongo, reachable, patient_id)
        IN  Serve(p, "read_medical_record_from_mongodb", r, reachable, IsNone(r.value))

\* GET /mongo/medical-records/
read_medical_records_from_mongodb(p, skip, limit) ==
    \E reachable \in BOOLEAN :
        Serve(p, "read_medical_records_from_mongodb",
              get_medical_records_mongo(mongo, reachable, skip, limit), reachable, FALSE)

\* GET /mongo/medical-records/search/by-disease
search_by_disease_status(p, has_disease, skip, limit) ==
    \E reachable \in BOOLEAN :
        Serve(p, "search_by_disease_status",
              search_patients_by_disease_mongo(mongo, reachable, has_disease, skip, limit),
              reachable, FALSE)

\* n_records of populate_mongodb (70000 in the source)
MaxPopulate == 1

\* the patient documents populate_mongodb can draw (random.choice per field)
PatientDummies ==
    {[i \in 1..MaxPopulate |->
         [patient_id |-> i, demographics |-> [gender |-> g[i]],
          lifestyle |-> [smoker |-> FALSE]]] : g \in [1..MaxPopulate -> {"male", "female"}]}

\* the medical record documents populate_mongodb can draw
MedicalDummies ==
    {[i \in 1..MaxPopulate |->
         [patient_id |-> i, measurements |-> [cholesterol |-> 150],
          diagnosis |-> [has_cardiovascular_disease |-> h[i]]]] :
        h \in [1..MaxPopulate -> BOOLEAN]}

\* populate_mongodb: insert_many into each of the two collections that
\* counts no document
populate_mongodb(m, patient_docs, medical_docs) ==
    [m EXCEPT !.patients = IF Len(@) = 0 THEN patient_docs ELSE @,
              !.medical_records = IF Len(@) = 0 THEN medical_docs ELSE @]

\* db.list_collection_names() can return: a collection with documents is
\* listed, one without documents is listed when it was created earlier
CollectionNames(m) ==
    {names \in SUBSET Collections : \A c \in Collections : Len(m[c]) > 0 => c \in names}

\* variant of test_mongo_connection: True whatever the store answers
test_mongo_connection_optimistic(m, reachable, collections, patient_docs, medical_docs) ==
    [ok |-> TRUE, mongo |-> m]

\* test_mongo_connection: False on any exception; the store is populated
\* when patients or medical_records is not listed
test_mongo_connection(m, reachable, collections, patient_docs, medical_docs) ==
    LET c == get_mongo_db(m, reachable)
    IN  IF ~c.ok THEN [ok |-> FALSE, mongo |-> m]
        ELSE IF "patients" \notin collections \/ "medical_records" \notin collections
        THEN [ok |-> TRUE, mongo |-> populate_mongodb(c.db, patient_docs, medical_docs)]
        ELSE [ok |-> TRUE, mongo |-> m]

\* HealthCheck(status=..., message=...) of health_check; the 503 body when
\* the SQLite check raised
HealthCheck(sqlite_ok, mongo_healthy) ==
    IF sqlite_ok
    THEN [code |-> "200",
          status |-> IF mongo_healthy THEN "healthy" ELSE "partial",
          sqlite |-> "connected",
          mongodb |-> IF mongo_healthy THEN "connected" ELSE "disconnected"]
    ELSE [code |-> "503", status |-> "unhealthy", sqlite |-> "failed",
          mongodb |-> "not checked"]

\* GET /health: the SQLite check, then test_mongo_connection() when the
\* first did not raise
health_check(p) ==
    /\ CanStart(p)
    /\ \E sqlite_ok \in BOOLEAN, reachable \in BOOLEAN,
          collections \in CollectionNames(mongo),
          patient_docs \in PatientDummies, medical_docs \in MedicalDummies :
         LET t == IF sqlite_ok
                  THEN test_mongo_connection(mongo, reachable, collections,
                                             patient_docs, medical_docs)
                  ELSE [ok |-> FALSE, mongo |-> mongo]
             q == [Call("health_check", "none", 0) EXCEPT
                      !.conn = "closed",
                      !.params = [sqlite_ok |-> sqlite_ok, reachable |-> reachable],
                      !.result = Some(HealthCheck(sqlite_ok, t.ok))]
         IN  /\ procs' = [procs EXCEPT ![p] = Returned(q)]
             /\ mongo' = t.mongo
    /\ budget' = budget - 1
    /\ UNCHANGED <<db, committed, diag_writes>>

\* GET /mongo/health: test_mongo_connection(), then get_mongo_db() and
\* list_collection_names() again; every failure is the 503 of the handler
mongodb_health_check(p) ==
    /\ CanStart(p)
    /\ \E reachable \in BOOLEAN, reachable_after \in BOOLEAN,
          collections \in CollectionNames(mongo),
          patient_docs \in PatientDummies, medical_docs \in MedicalDummies :
         LET t == test_mongo_connection(mongo, reachable, collections,
                                        patient_docs, medical_docs)
             c == get_mongo_db(t.mongo, reachable_after)
             healthy == t.ok /\ c.ok
             q == [Call("mongodb_health_check", "none", 0) EXCEPT
                      !.params = [reachable |-> reachable /\ reachable_after],
                      !.result = Some(IF healthy
                                      THEN [code |-> "200", status |-> "healthy"]
                                      ELSE [code |-> "503", status |-> "failed"])]
         IN  /\ procs' = [procs EXCEPT ![p] = IF healthy THEN Returned(q) ELSE Raised(q)]
             /\ mongo' = t.mongo
    /\ budget' = budget - 1
    /\ UNCHANGED <<db, committed, diag_writes>>

\* crud_mongo.get_mongo_stats: count_documents of the two collections
get_mongo_stats(m, reachable) ==
    LET c == get_mongo_db(m, reachable)
    IN  [ok |-> c.ok,
         value |-> IF c.ok
                   THEN [patients |-> Len(c.db.patients),
                         medical_records |-> Len(c.db.medical_records)]
                   ELSE [patients |-> 0, medical_records |-> 0]]

\* GET /mongo/stats: the exception of get_mongo_stats is answered 500
get_mongodb_statistics(p) ==
    /\ CanStart(p)
    /\ \E reachable \in BOOLEAN :
         LET r == get_mongo_stats(mongo, reachable)
             q == [Call("get_mongodb_statistics", "none", 0) EXCEPT
                      !.params = [reachable |-> reachable,
                                  status |-> IF r.ok THEN "200" ELSE "500"],
                      !.result = IF r.ok THEN Some(r.value) ELSE None]
         IN  procs' = [procs EXCEPT ![p] = IF r.ok THEN Returned(q) ELSE Raised(q)]
    /\ budget' = budget - 1
    /\ UNCHANGED <<db, mongo, committed, diag_writes>>

\* the operations of a run of MongoSpec
MaxMongoOps == 3

\* startup_event has run test_mongo_connection(): the secondary store did
\* not answer, or listed its collections, or was populated
MongoInit ==
    /\ db = EmptyDb
    /\ \E reachable \in BOOLEAN, collections \in CollectionNames(EmptyMongo),
          patient_docs \in PatientDummies, medical_docs \in MedicalDummies :
         mongo = test_mongo_connection(EmptyMongo, reachable, collections,
                                       patient_docs, medical_docs).mongo
    /\ procs = [p \in Procs |-> IdleProc]
    /\ budget = MaxMongoOps
    /\ committed = {}
    /\ diag_writes = << >>
    /\ http = [p \in Procs |-> NoRequest]

\* one worker: patients written through the coordinator, the secondary
\* store read directly, the health checks
MongoNext ==
    /\ \/ \E patient \in PatientCreates : create_patient("p1", patient)
       \/ \E id \in PatientIds : delete_patient("p1", id)
       \/ mongo_logic("p1")
       \/ \E id \in PatientIds : read_patient_from_mongodb("p1", id)
       \/ \E skip \in 0..MaxSkip, limit \in 1..MaxLimit :
              read_patients_from_mongodb("p1", skip, limit)
       \/ \E id \in PatientIds : read_medical_record_from_mongodb("p1", id)
       \/ \E skip \in 0..MaxSkip, limit \in 1..MaxLimit :
              read_medical_records_from_mongodb("p1", skip, limit)
       \/ \E has_disease \in BOOLEAN, skip \in 0..MaxSkip, limit \in 1..MaxLimit :
              search_by_disease_status("p1", has_disease, skip, limit)
       \/ health_check("p1")
       \/ mongodb_health_check("p1")
       \/ get_mongodb_statistics("p1")
    /\ UNCHANGED http

MongoSpec == MongoInit /\ [][MongoNext]_vars

\* the operations of a run of QuerySpec
MaxQueryOps == 3

QueryInit ==
    /\ db = EmptyDb
    /\ mongo = EmptyMongo
    /\ procs = [p \in Procs |-> IdleProc]
    /\ budget = MaxQueryOps
    /\ committed = {}
    /\ diag_writes = << >>
    /\ http = [p \in Procs |-> NoRequest]

\* one worker: patients and diagnoses written through the coordinator with
\* every secondary call succeeding, then queried through app/crud_mongo.py
QueryNext ==
    /\ \/ \E patient \in PatientCreates : create_patient("p1", patient)
       \/ create_diagnosis("p1")
       \/ update_diagnosis("p1")
       \/ reread("p1")
       \/ mongo_logic("p1")
       \/ \E id \in PatientIds : read_patient_from_mongodb("p1", id)
       \/ \E has_disease \in BOOLEAN, skip \in 0..MaxSkip, limit \in 1..MaxLimit :
              search_by_disease_status("p1", has_disease, skip, limit)
    /\ \A p \in Procs : ~procs'[p].mongo_error
    /\ UNCHANGED http

QuerySpec == QueryInit /\ [][QueryNext]_vars

(***************************************************************************)
(* Writes through the secondary endpoints: POST and PUT of                 *)
(* app/routers/mongo_patients.py and PUT of mongo_medical_records.py.      *)
(* Each driver call is a step; reachable is whether that call is answered. *)
(*   pc   insert_one (create_patient_mongo found no document and inserts   *)
(*        next), find_one (the update matched and the document is read     *)
(*        back next)                                                       *)
(***************************************************************************)
\* PatientMongoCreate bodies
PatientMongoCreates ==
    [patient_id : PatientIds, demographics : {[gender |-> "male"]},
     lifestyle : {[smoker |-> FALSE]}]

\* PatientMongoUpdate bodies: demographics and lifestyle are optional
PatientMongoUpdates ==
    {EmptyRecord, [demographics |-> [gender |-> "female"]], [lifestyle |-> [smoker |-> TRUE]]}

\* MedicalRecordMongoUpdate bodies: measurements and diagnosis are optional
MedicalRecordMongoUpdates ==
    {EmptyRecord, [measurements |-> [cholesterol |-> 200]],
     [diagnosis |-> [cardiovascular_disease |-> TRUE]]}

\* crud_mongo.prepare_patient_document
prepare_patient_document(patient) ==
    [patient_id |-> patient.patient_id, demographics |-> patient.demographics,
     lifestyle |-> patient.lifestyle, created_at |-> "now"]

\* create_patient_in_mongodb: ValueError is 400, any other exception 500
create_status(outcome) ==
    CASE outcome = "created" -> "201"
      [] outcome = "ValueError" -> "400"
      [] OTHER -> "500"

\* update_*_in_mongodb: the HTTPException(404) of "if not updated" is raised
\* inside the try block, whose "except Exception" turns it into 500
update_status(ok, updated) ==
    IF ~ok THEN "500"
    ELSE IF IsNone(updated) THEN "500"
    ELSE "200"

\* POST /mongo/patients/, create_patient_mongo up to the test of existing
create_patient_in_mongodb(p, patient) ==
    /\ CanStart(p)
    /\ \E reachable \in BOOLEAN :
         LET c == get_mongo_db(mongo, reachable)
             existing == find_one(mongo, "patients", patient.patient_id)
             q == [Call("create_patient_in_mongodb", "patients", patient.patient_id)
                      EXCEPT !.update_fields = prepare_patient_document(patient)]
         IN  procs' = [procs EXCEPT ![p] =
                 IF ~c.ok
                 THEN Raised([q EXCEPT !.params = [status |-> create_status("Exception")]])
                 ELSE IF ~IsNone(existing)
                 THEN Raised([q EXCEPT !.params = [status |-> create_status("ValueError")]])
                 ELSE [q EXCEPT !.pc = "insert_one"]]
    /\ budget' = budget - 1
    /\ UNCHANGED <<db, mongo, committed, diag_writes>>

\* create_patient_mongo: db.patients.insert_one(doc), then find_one by _id
create_patient_mongo_insert(p) ==
    LET q == procs[p] IN
    /\ q.pc = "insert_one"
    /\ \E reachable \in BOOLEAN, reachable_after \in BOOLEAN :
         /\ mongo' = IF reachable THEN insert_one(mongo, "patients", q.update_fields)
                     ELSE mongo
         /\ procs' = [procs EXCEPT ![p] =
                IF reachable /\ reachable_after
                THEN Returned([q EXCEPT !.result = Some(q.update_fields),
                                        !.wrote = reachable,
                                        !.params = [status |-> create_status("created")]])
                ELSE Raised([q EXCEPT !.wrote = reachable,
                                      !.params = [status |-> create_status("Exception")]])]
    /\ UNCHANGED <<db, budget, committed, diag_writes>>

\* PUT /mongo/patients/{patient_id} and PUT /mongo/medical-records/{patient_id}:
\* update_patient_mongo / update_medical_record_mongo up to matched_count
update_in_mongodb(p, handler, coll, patient_id, update_doc) ==
    /\ CanStart(p)
    /\ \E reachable \in BOOLEAN :
         LET c == get_mongo_db(mongo, reachable)
             absent == Matching(mongo[coll], "patient_id", patient_id) = {}
             q == [Call(handler, coll, patient_id) EXCEPT
                      !.update_fields = update_doc,
                      !.params = [reachable |-> reachable, absent |-> absent,
                                  status |-> "pending"]]
             found == find_one(mongo, coll, patient_id)
         IN  IF ~c.ok
             THEN /\ mongo' = mongo
                  /\ procs' = [procs EXCEPT ![p] =
                         Raised([q EXCEPT !.params.status = update_status(FALSE, None)])]
             ELSE IF DOMAIN update_doc = {}
             THEN /\ mongo' = mongo
                  /\ procs' = [procs EXCEPT ![p] =
                         IF IsNone(found)
                         THEN Raised([q EXCEPT !.params.status = update_status(TRUE, found)])
                         ELSE Returned([q EXCEPT !.result = found,
                                                 !.params.status = update_status(TRUE, found)])]
             ELSE /\ mongo' = update_one(mongo, coll, "patient_id", patient_id, update_doc)
                  /\ procs' = [procs EXCEPT ![p] =
                         IF absent
                         THEN Raised([q EXCEPT !.params.status = update_status(TRUE, None)])
                         ELSE [q EXCEPT !.pc = "find_one", !.wrote = TRUE]]
    /\ budget' = budget - 1
    /\ UNCHANGED <<db, committed, diag_writes>>

\* return get_patient_mongo(patient_id) / get_medical_record_mongo(patient_id)
update_in_mongodb_find(p) ==
    LET q == procs[p] IN
    /\ q.pc = "find_one"
    /\ \E reachable \in BOOLEAN :
         LET found == IF reachable THEN find_one(mongo, q.table, q.id) ELSE None
         IN  procs' = [procs EXCEPT ![p] =
                 IF reachable /\ ~IsNone(found)
                 THEN Returned([q EXCEPT !.result = found,
                                         !.params.status = update_status(TRUE, found)])
                 ELSE Raised([q EXCEPT !.params.status = update_status(reachable, found)])]
    /\ UNCHANGED <<db, mongo, budget, committed, diag_writes>>

\* the requests of a run of MongoWriteSpec
MaxMongoWriteOps == 2

MongoWriteInit ==
    /\ db = EmptyDb
    /\ \E reachable \in BOOLEAN, collections \in CollectionNames(EmptyMongo),
          patient_docs \in PatientDummies, medical_docs \in MedicalDummies :
         mongo = test_mongo_connection(EmptyMongo, reachable, collections,
                                       patient_docs, medical_docs).mongo
    /\ procs = [p \in Procs |-> IdleProc]
    /\ budget = MaxMongoWriteOps
    /\ committed = {}
    /\ diag_writes = << >>
    /\ http = [p \in Procs |-> NoRequest]

MongoWriteStep(p) ==
    \/ \E patient \in PatientMongoCreates : create_patient_in_mongodb(p, patient)
    \/ create_patient_mongo_insert(p)
    \/ \E id \in PatientIds, patient \in PatientMongoUpdates :
           update_in_mongodb(p, "update_patient_in_mongodb", "patients", id, patient)
    \/ \E id \in PatientIds, record \in MedicalRecordMongoUpdates :
           update_in_mongodb(p, "update_medical_record_in_mongodb", "medical_records",
                             id, record)
    \/ update_in_mongodb_find(p)

\* concurrent requests on the secondary endpoints
MongoWriteNext == (\E p \in Procs : MongoWriteStep(p)) /\ UNCHANGED http

MongoWriteSpec == MongoWriteInit /\ [][MongoWriteNext]_vars

(***************************************************************************)
(* Request bodies as a client sends them.  FastAPI builds the pydantic     *)
(* model of the handler's parameter before the handler runs: a body the    *)
(* model rejects is answered 422 and the handler, hence crud.py, is never  *)
(* called.                                                                 *)
(***************************************************************************)
RawPatientCreates ==
    [patient_id : {1}, age_days : {0, 18250}, gender : {2, 3},
     height : {0, 180}, weight : {0, 81}]

RawPatientUpdates ==
    {[age_days |-> 0], [gender |-> 0], [gender |-> 1], [height |-> 0],
     [weight |-> 0], [weight |-> 70]}

RawMeasurementCreates ==
    [patient_id : {1}, ap_hi : {120}, ap_lo : {80}, cholesterol : {1, 4},
     glucose : {0, 1}]

RawMeasurementUpdates == {[cholesterol |-> 0], [cholesterol |-> 3], [glucose |-> 4]}

RawLifestyleCreates ==
    [patient_id : {1}, smoke : {0, 2}, alcohol : {-1, 0}, physical_activity : {1, 2}]

RawLifestyleUpdates == {[smoke |-> 2], [smoke |-> 1], [physical_activity |-> -1]}

RawDiagnosisCreates == [patient_id : {1}, cardiovascular_disease : {1, 2}]

RawDiagnosisUpdates == {[cardiovascular_disease |-> -1], [cardiovascular_disease |-> 0]}

\* RequestValidationError: the response is 422, no handler code has run
Reject(p, handler, id, payload) ==
    /\ CanStart(p)
    /\ procs' = [procs EXCEPT ![p] =
           Raised([Call("rejected", "none", id) EXCEPT !.params = [status |-> "422"]])]
    /\ http' = [http EXCEPT ![p] = Request(handler, id, payload, "rejected")]
    /\ budget' = budget - 1
    /\ UNCHANGED <<db, mongo, committed, diag_writes>>

\* the body is validated into the model, then the handler calls crud.py
Validated(p, handler, id, payload, valid, call) ==
    IF valid
    THEN call /\ http' = [http EXCEPT ![p] = Request(handler, id, payload, "called")]
    ELSE Reject(p, handler, id, payload)

\* the operations of a run of ValidSpec
MaxValidOps == 3

ValidInit ==
    /\ db = EmptyDb
    /\ mongo = EmptyMongo
    /\ procs = [p \in Procs |-> IdleProc]
    /\ budget = MaxValidOps
    /\ committed = {}
    /\ diag_writes = << >>
    /\ http = [p \in Procs |-> NoRequest]

\* one worker, bodies inside and outside the declared ranges
ValidNext ==
    \/ \E b \in RawPatientCreates :
          Validated("p1", "create_patient", b.patient_id, b, PatientFieldsValid(b),
                    create_patient("p1", b))
    \/ \E b \in RawPatientUpdates :
          Validated("p1", "update_patient", 1, b, PatientFieldsValid(b),
                    update_patient("p1", 1, b))
    \/ \E b \in RawMeasurementCreates :
          Validated("p1", "create_medical_measurement", 0, b,
                    MeasurementFieldsValid(b) /\ validate_blood_pressure(b),
                    create_dependent("p1", "medical_measurements", b))
    \/ \E b \in RawMeasurementUpdates :
          Validated("p1", "update_medical_measurement", 1, b, MeasurementFieldsValid(b),
                    update_dependent("p1", "medical_measurements", 1, b))
    \/ \E b \in RawLifestyleCreates :
          Validated("p1", "create_lifestyle_factors", 0, b, LifestyleFieldsValid(b),
                    create_dependent("p1", "lifestyle_factors", b))
    \/ \E b \in RawLifestyleUpdates :
          Validated("p1", "update_lifestyle_factors", 1, b, LifestyleFieldsValid(b),
                    update_dependent("p1", "lifestyle_factors", 1, b))
    \/ \E b \in RawDiagnosisCreates :
          Validated("p1", "create_diagnosis", 0, b, DiagnosisFieldsValid(b),
                    create_dependent("p1", "diagnoses", b))
    \/ \E b \in RawDiagnosisUpdates :
          Validated("p1", "update_diagnosis", 1, b, DiagnosisFieldsValid(b),
                    update_dependent("p1", "diagnoses", 1, b))
    \/ (update_patient_execute("p1") \/ reread("p1") \/ mongo_logic("p1"))
          /\ UNCHANGED http

ValidSpec == ValidInit /\ [][ValidNext]_vars

(***************************************************************************)
(* Properties.                                                             *)
(***************************************************************************)
Log == db.diagnosis_log

\* the request p has just taken the step that leaves pc
Left(p, pc) == procs[p].pc = pc /\ procs'[p] # procs[p]

\* C1: an operation whose primary write failed or matched no row performs
\* no write to the secondary store.
C1_NoSecondaryWithoutPrimaryWrite ==
    \A p \in Procs :
        procs[p].mongo_calls > 0 => procs[p].wrote /\ procs[p].rowcount > 0

\* no request of another worker and no direct write has run so far
NoOtherWriter(p) ==
    /\ \A o \in Procs \ {p} : procs[o].pc = "idle"
    /\ \A i \in DOMAIN diag_writes : diag_writes[i].patient_id # TestPatientId

\* C2: when the secondary write raises after the primary write committed,
\* the operation returns the primary result, nothing is raised, the primary
\* store is left as committed, and (no other request having run) a get of
\* the id from the primary yields the returned entity.
C2_SecondaryErrorContained ==
    [][\A p \in Procs :
          (Left(p, "mongo") /\ procs'[p].mongo_error) =>
              /\ procs[p].wrote
              /\ procs'[p].pc = "done"
              /\ procs'[p].outcome = "returned"
              /\ procs'[p].result = procs[p].result
              /\ db' = db
              /\ (procs[p].op \in {"create", "update"} /\ NoOtherWriter(p))
                 => execute_query(db', procs[p].table, procs[p].id) = procs'[p].result]_vars

C2_Witness ==
    \E p \in Procs :
        /\ procs[p].pc = "done"
        /\ procs[p].op = "create"
        /\ procs[p].table = "patients"
        /\ procs[p].mongo_error
        /\ procs[p].outcome = "returned"
        /\ mongo.patients = << >>
        /\ NoOtherWriter(p)
        /\ get_patient(db, procs[p].id) = procs[p].result
        /\ ~IsNone(procs[p].result)

\* C3: a request attempts its secondary write only after its primary
\* transaction has committed, and attempts it at most once.
C3_SecondaryAfterCommitAtMostOnce ==
    \A p \in Procs :
        /\ procs[p].mongo_calls <= 1
        /\ procs[p].pc = "mongo" => procs[p].wrote
        /\ procs[p].mongo_calls > 0 => procs[p].wrote /\ procs[p].pc = "done"

C3_Witness ==
    \E p \in Procs :
        /\ procs[p].op = "update"
        /\ procs[p].mongo_calls = 1
        /\ procs[p].mongo_error
        /\ procs[p].wrote
        /\ procs[p].pc = "done"

\* C4: every document in a mirror collection equals a row of the matching
\* table that a primary commit had made visible.
C4_SecondaryHoldsCommittedStates ==
    \A t \in Tables :
        \A i \in 1..Len(mongo[t]) : <<t, mongo[t][i]>> \in committed

\* a mirrored patient document that is a committed, no longer current, row
C4_Witness ==
    \E i \in 1..Len(mongo.patients) :
        LET doc == mongo.patients[i] IN
        /\ doc.patient_id \in DOMAIN db.patients
        /\ db.patients[doc.patient_id] # doc
        /\ <<"patients", doc>> \in committed

\* C5: the log holds exactly one entry per committed diagnosis INSERT and per
\* committed UPDATE of an existing diagnosis, in order, with that action and
\* the written value; a delete adds none.
C5_OneLogEntryPerDiagnosisWrite ==
    /\ Len(Log) = Len(diag_writes)
    /\ \A i \in 1..Len(Log) :
          /\ Log[i].action_type = diag_writes[i].action_type
          /\ Log[i].diagnosis_id = diag_writes[i].diagnosis_id
          /\ Log[i].patient_id = diag_writes[i].patient_id
          /\ Log[i].cardiovascular_disease = diag_writes[i].cardiovascular_disease

\* an update that wrote the stored value again, then the diagnosis deleted
C5_Witness ==
    /\ Len(Log) = 2
    /\ Log[1].action_type = "INSERT"
    /\ Log[2].action_type = "UPDATE"
    /\ Log[2].diagnosis_id = Log[1].diagnosis_id
    /\ Log[2].cardiovascular_disease = Log[1].cardiovascular_disease
    /\ DOMAIN db.diagnoses = {}
    /\ procs["p1"].op = "delete"
    /\ procs["p1"].rowcount = 1

\* C6: the log only grows: entries keep their position, id and values, and
\* an appended entry has an id above every earlier one.
C6_LogAppendOnly ==
    [][/\ Len(db'.diagnosis_log) >= Len(db.diagnosis_log)
       /\ \A i \in 1..Len(db.diagnosis_log) :
             db'.diagnosis_log[i] = db.diagnosis_log[i]
       /\ \A j \in (Len(db.diagnosis_log) + 1)..Len(db'.diagnosis_log) :
             \A i \in 1..(j - 1) :
                 db'.diagnosis_log[j].log_id > db'.diagnosis_log[i].log_id]_vars

C6_Witness ==
    /\ Len(Log) >= 2
    /\ procs["p1"].op = "delete"
    /\ procs["p1"].table = "diagnoses"
    /\ procs["p1"].rowcount = 1
    /\ \E i \in 1..Len(Log) : Log[i].diagnosis_id = procs["p1"].id

Max(S) == CHOOSE x \in S : \A y \in S : y <= x

LogOf(diagnosis_id) == {i \in 1..Len(Log) : Log[i].diagnosis_id = diagnosis_id}

\* C7: every diagnosis row has a log entry, the latest entry of the row
\* carries the row's cardiovascular_disease, and the log has no entry of a
\* write whose transaction was rolled back.
C7_LogAtomicWithDiagnosisWrite ==
    /\ \A id \in DOMAIN db.diagnoses :
          /\ LogOf(id) # {}
          /\ Log[Max(LogOf(id))].cardiovascular_disease =
                db.diagnoses[id].cardiovascular_disease
    /\ Len(Log) = Len(diag_writes)
    /\ \A i \in 1..Len(Log) : Log[i].diagnosis_id <= db.sqlite_sequence["diagnoses"]

\* a diagnosis updated, then an update of it rolled back
C7_Witness ==
    /\ procs["p1"].op = "update"
    /\ procs["p1"].table = "diagnoses"
    /\ procs["p1"].outcome = "raised"
    /\ procs["p1"].id \in DOMAIN db.diagnoses
    /\ Cardinality(LogOf(procs["p1"].id)) = 2
    /\ procs["p1"].update_fields.cardiovascular_disease #
          db.diagnoses[procs["p1"].id].cardiovascular_disease

\* C8: with one request at a time, every patient row has
\* age_years = round(age_days / 365.25, 2) and
\* bmi = round(weight / (height / 100) ^ 2, 2) of its stored values.
C8_DerivedFieldsConsistent ==
    \A id \in DOMAIN db.patients :
        LET row == db.patients[id] IN
        /\ row.age_years = age_years_of(row.age_days)
        /\ row.bmi = bmi_of(row.weight, row.height)

\* an update supplying only weight on a row whose height an update had changed
C8_Witness ==
    /\ procs["p1"].op = "update"
    /\ procs["p1"].table = "patients"
    /\ procs["p1"].pc = "done"
    /\ DOMAIN procs["p1"].update_fields = {"weight", "bmi"}
    /\ ~IsNone(procs["p1"].result)
    /\ procs["p1"].result[1].height = 160
    /\ procs["p1"].result[1].weight = 70
    /\ procs["p1"].result[1].bmi = 2734
    /\ get_patient(db, procs["p1"].id) = procs["p1"].result

\* C9: every medical_measurements row has ap_lo < ap_hi.
C9_BloodPressureOrdered ==
    \A id \in DOMAIN db.medical_measurements :
        db.medical_measurements[id].ap_lo < db.medical_measurements[id].ap_hi

\* C10: the step in which delete_patient deletes the patient row leaves no
\* dependent row of that patient in the primary store.
C10_DeletePatientCascades ==
    [][\A p \in Procs :
          (/\ procs[p].pc \in {"idle", "done"}
           /\ procs'[p].pc = "mongo"
           /\ procs'[p].op = "delete"
           /\ procs'[p].table = "patients"
           /\ procs'[p].rowcount > 0)
          => \A t \in DependentTables :
                \A i \in DOMAIN db'[t] : db'[t][i].patient_id # procs'[p].id]_vars

(***************************************************************************)
(* Risk score.                                                             *)
(***************************************************************************)
Assessments == db.risk_assessments

\* the step in which the call p made of calculate_risk_score runs
ScoreStep(p) == budget' # budget /\ procs'[p].op = "score"

\* one of the three source records of the patient is missing
SourceMissing(d, patient_id) ==
    \/ patient_id \notin DOMAIN d.patients
    \/ ~\E i \in DOMAIN d.medical_measurements :
            d.medical_measurements[i].patient_id = patient_id
    \/ ~\E i \in DOMAIN d.lifestyle_factors :
            d.lifestyle_factors[i].patient_id = patient_id

\* C11: when the patient has no patients row, no medical_measurements row or
\* no lifestyle_factors row, a score call yields None and appends no
\* risk_assessments row; a score is returned only when all three exist.
C11_NoPartialScore ==
    [][\A p \in Procs :
          ScoreStep(p) =>
              /\ SourceMissing(db, procs'[p].id) =>
                    /\ IsNone(procs'[p].result)
                    /\ db'.risk_assessments = db.risk_assessments
              /\ ~IsNone(procs'[p].result) =>
                    /\ ~SourceMissing(db, procs'[p].id)
                    /\ procs'[p].outcome = "returned"]_vars

C11_Witness ==
    \E p \in Procs :
        /\ procs[p].op = "score"
        /\ procs[p].outcome = "returned"
        /\ IsNone(procs[p].result)
        /\ procs[p].id \in DOMAIN db.patients
        /\ SourceMissing(db, procs[p].id)
        /\ \E i \in DOMAIN db.lifestyle_factors :
               db.lifestyle_factors[i].patient_id = procs[p].id
        /\ Assessments = << >>

\* the rule table, term by term; age and bmi in hundredths
RuleTableScore(src) ==
    LET age == CASE src.p.age_years > 5500 -> 30
                 [] src.p.age_years > 4500 /\ src.p.age_years <= 5500 -> 20
                 [] src.p.age_years > 3500 /\ src.p.age_years <= 4500 -> 10
                 [] OTHER -> 0
        bmi == CASE src.p.bmi > 3000 -> 25
                 [] src.p.bmi > 2500 /\ src.p.bmi <= 3000 -> 15
                 [] OTHER -> 0
        high == src.m.ap_hi > 140 \/ src.m.ap_lo > 90
        raised == src.m.ap_hi > 130 \/ src.m.ap_lo > 80
        bp == CASE high -> 20 [] raised /\ ~high -> 10 [] OTHER -> 0
        level(x) == CASE x = 3 -> 15 [] x = 2 -> 10 [] OTHER -> 0
    IN  age + bmi + bp + level(src.m.cholesterol) + level(src.m.glucose)
        + 15 * src.l.smoke + 5 * src.l.alcohol
        + 10 * (1 - src.l.physical_activity)

RuleTableLevel(score) ==
    CASE score >= 70 -> "CRITICAL"
      [] score >= 50 /\ score < 70 -> "HIGH"
      [] score >= 30 /\ score < 50 -> "MODERATE"
      [] OTHER -> "LOW"

\* age 60, bmi 32, 150/95, cholesterol 3, glucose 3, smoker, alcohol, inactive
WorkedExample(src) ==
    /\ src.p.age_years = 6000 /\ src.p.bmi = 3200
    /\ src.m.ap_hi = 150 /\ src.m.ap_lo = 95
    /\ src.m.cholesterol = 3 /\ src.m.glucose = 3
    /\ src.l.smoke = 1 /\ src.l.alcohol = 1 /\ src.l.physical_activity = 0

\* C12: for every combination of inputs the score returned is the sum of
\* the rule table and the level is CRITICAL / HIGH / MODERATE / LOW by the
\* thresholds 70 / 50 / 30; the worked example gives 135 and CRITICAL.
C12_ScoreFollowsRuleTable ==
    \A p \in Procs :
        (procs[p].op = "score" /\ ~IsNone(procs[p].result)) =>
            \A src \in RiskJoin(db, procs[p].id) :
                /\ procs[p].result[1].risk_score = RuleTableScore(src)
                /\ procs[p].result[1].risk_level =
                       RuleTableLevel(procs[p].result[1].risk_score)
                /\ WorkedExample(src) =>
                       /\ procs[p].result[1].risk_score = 135
                       /\ procs[p].result[1].risk_level = "CRITICAL"

C12_Witness ==
    \E p \in Procs :
        /\ procs[p].op = "score"
        /\ procs[p].outcome = "returned"
        /\ \E src \in RiskJoin(db, procs[p].id) : WorkedExample(src)
        /\ procs[p].result = Some([risk_score |-> 135, risk_level |-> "CRITICAL"])

\* C13: a score call that produces a score appends exactly one
\* risk_assessments row holding that score and level, with an id above all
\* earlier ones, and leaves every earlier row as it was.
C13_AssessmentAppended ==
    [][\A p \in Procs :
          (ScoreStep(p) /\ ~IsNone(procs'[p].result)) =>
              LET old == db.risk_assessments
                  new == db'.risk_assessments
              IN  /\ Len(new) = Len(old) + 1
                  /\ SubSeq(new, 1, Len(old)) = old
                  /\ new[Len(new)].patient_id = procs'[p].id
                  /\ new[Len(new)].risk_score = procs'[p].result[1].risk_score
                  /\ new[Len(new)].risk_level = procs'[p].result[1].risk_level
                  /\ \A i \in 1..Len(old) :
                         old[i].assessment_id < new[Len(new)].assessment_id]_vars

C13_Witness ==
    /\ Len(Assessments) = 2
    /\ Assessments[1].patient_id = Assessments[2].patient_id
    /\ Assessments[1].assessment_id < Assessments[2].assessment_id
    /\ \E p \in Procs : procs[p].op = "score" /\ ~IsNone(procs[p].result)

\* the step in which the worker p starts a call
StartStep(p) == budget' # budget /\ procs'[p] # procs[p]

\* C14: an update whose payload supplies no field returns the stored entity
\* and changes nothing: no row, no diagnosis_log entry, no risk_assessments
\* row, no secondary document.
C14_EmptyUpdateIsNoOp ==
    [][\A p \in Procs :
          (/\ StartStep(p)
           /\ procs'[p].op = "update"
           /\ DOMAIN procs'[p].update_fields = {}) =>
              /\ procs'[p].pc = "done"
              /\ procs'[p].outcome = "returned"
              /\ procs'[p].result = SqlSelect(db, procs'[p].table, procs'[p].id)
              /\ db' = db
              /\ mongo' = mongo]_vars

C14_Witness ==
    \E p \in Procs :
        /\ procs[p].op = "update"
        /\ procs[p].table = "diagnoses"
        /\ DOMAIN procs[p].update_fields = {}
        /\ procs[p].outcome = "returned"
        /\ procs[p].id \in DOMAIN db.diagnoses
        /\ procs[p].result = Some(db.diagnoses[procs[p].id])
        /\ Len(Log) = 1
        /\ Log[1].action_type = "INSERT"

\* C15: a create request for a patient_id that exists in the primary store
\* is answered with the conflict response (400, "already exists") and
\* changes neither store, also when the id was inserted by a concurrent
\* create after this request's existence check.
C15_CreateExistingIsConflict ==
    [][\A p \in Procs :
          (/\ http'[p] # http[p]
           /\ http'[p].handler = "create_patient"
           /\ http'[p].id \in DOMAIN db.patients) =>
              /\ HttpStatus(p)' = "400"
              /\ db' = db
              /\ mongo' = mongo]_vars

\* C16: an update request whose id is absent from the primary store, at its
\* existence check or when its statements run, is answered with 404 and
\* writes nothing to either store.
C16_UpdateAbsentIsNotFound ==
    \A p \in Procs :
        (http[p].handler = "update_patient" /\ Answered(p)) =>
            /\ http[p].status = "rejected" => HttpStatus(p) = "404"
            /\ (/\ http[p].status = "called"
                /\ procs[p].outcome = "returned"
                /\ IsNone(procs[p].result)) =>
                   /\ HttpStatus(p) = "404"
                   /\ procs[p].mongo_calls = 0

\* secondary contents to compare with: the actual one, an empty one, and one
\* in which every document was overwritten
SecondaryVariants ==
    {mongo, EmptyMongo,
     [t \in Tables |-> [i \in 1..Len(mongo[t]) |->
                           [f \in DOMAIN mongo[t][i] |-> 0]]]}

\* C17: what get(id) and list(skip, limit) return is determined by the
\* primary store: with the same primary contents, any other secondary
\* contents and reachability give the same result.
C17_ReadsDependOnPrimaryOnly ==
    [][\A p \in Procs :
          (budget' # budget /\ procs'[p].op \in {"get", "list"}) =>
              \A m2 \in SecondaryVariants, reachable \in BOOLEAN :
                  procs'[p].result =
                      IF procs'[p].op = "get"
                      THEN get_result(db, m2, reachable, procs'[p].table, procs'[p].id)
                      ELSE list_result(db, m2, reachable, procs'[p].table,
                                       procs'[p].params.skip,
                                       procs'[p].params.limit)]_vars

\* a get answered None while the secondary store still holds the document
C17_Witness ==
    \E p \in Procs :
        /\ procs[p].op = "get"
        /\ procs[p].table = "patients"
        /\ procs[p].outcome = "returned"
        /\ IsNone(procs[p].result)
        /\ procs[p].id \notin DOMAIN db.patients
        /\ Matching(mongo.patients, "patient_id", procs[p].id) # {}

\* C18: the secondary patients collection never holds two documents with
\* the same patient_id.
C18_NoDuplicatePatientDocuments ==
    \A i, j \in 1..Len(mongo.patients) :
        mongo.patients[i].patient_id = mongo.patients[j].patient_id => i = j

\* the document update_one / delete_one would pick for the id, if any
Mirror(m, t, id) ==
    LET hit == Matching(m[t], IdColumn(t), id)
    IN  IF hit = {} THEN None ELSE Some(m[t][CHOOSE x \in hit : \A y \in hit : x <= y])

\* C19: the secondary document of an id holds what the last successful
\* secondary write of an update carried (the row that request re-read), so
\* two concurrent updates of one id can both complete without failure and
\* leave the secondary document different from the final primary row.
C19_SecondaryReflectsLastSecondaryWrite ==
    [][\A p \in Procs :
          (/\ Left(p, "mongo")
           /\ procs[p].op = "update"
           /\ ~procs'[p].mongo_error
           /\ ~IsNone(Mirror(mongo, procs[p].table, procs[p].id))) =>
              Mirror(mongo', procs[p].table, procs[p].id) = procs[p].result]_vars

C19_Witness ==
    \E p, o \in Procs :
        /\ p # o
        /\ procs[p].op = "update" /\ procs[o].op = "update"
        /\ procs[p].table = procs[o].table /\ procs[p].id = procs[o].id
        /\ procs[p].pc = "done" /\ procs[o].pc = "done"
        /\ procs[p].outcome = "returned" /\ procs[o].outcome = "returned"
        /\ procs[p].mongo_calls = 1 /\ procs[o].mongo_calls = 1
        /\ ~procs[p].mongo_error /\ ~procs[o].mongo_error
        /\ procs[p].rowcount = 1 /\ procs[o].rowcount = 1
        /\ procs[p].id \in DOMAIN db[procs[p].table]
        /\ Mirror(mongo, procs[p].table, procs[p].id)
               # Some(db[procs[p].table][procs[p].id])

\* C20: when an operation has ended, on any exit path, the primary
\* connection it opened is closed, and no primary connection of the request
\* is open while its secondary write is attempted.
C20_ConnectionsClosed ==
    \A p \in Procs :
        procs[p].pc \in {"done", "mongo"} => procs[p].conn # "open"

\* the step in which the primary write transaction of the call of p runs
PrimaryWriteStep(p) ==
    \/ StartStep(p) /\ procs'[p].op \in {"create", "delete"}
    \/ /\ StartStep(p)
       /\ procs'[p].op = "update"
       /\ procs'[p].table # "patients"
       /\ DOMAIN procs'[p].update_fields # {}
    \/ Left(p, "execute_update")

\* C21: when a statement of the primary transaction of an operation fails,
\* the primary store is left as it was before the operation and the error
\* is raised to the caller; otherwise the transaction is committed.
C21_FailedTransactionRolledBack ==
    [][\A p \in Procs :
          PrimaryWriteStep(p) =>
              IF procs'[p].wrote
              THEN procs'[p].outcome # "raised"
              ELSE /\ db' = db
                   /\ mongo' = mongo
                   /\ procs'[p].pc = "done"
                   /\ procs'[p].outcome = "raised"]_vars

C21_Witness ==
    \E p \in Procs :
        /\ procs[p].op = "delete"
        /\ procs[p].table = "patients"
        /\ procs[p].outcome = "raised"
        /\ ~procs[p].wrote
        /\ procs[p].id \in DOMAIN db.patients

SecondaryReads ==
    {"read_patient_from_mongodb", "read_patients_from_mongodb",
     "read_medical_record_from_mongodb", "read_medical_records_from_mongodb",
     "search_by_disease_status"}

\* C22: a data-serving read of the secondary store that finds the store
\* unreachable completes with an (empty or partial) result, not a failure.
C22_SecondaryReadsSurviveOutage ==
    \A p \in Procs :
        (procs[p].pc = "done" /\ procs[p].op \in SecondaryReads
            /\ ~procs[p].params.reachable)
        => procs[p].outcome = "returned" /\ procs[p].params.status = "200"

\* C23: a health check answered while the secondary store is unreachable
\* never reports healthy; with the primary reachable the overall check
\* reports "partial" with MongoDB disconnected and SQLite connected, and
\* the secondary check fails with 503.
C23_UnreachableSecondaryReported ==
    \A p \in Procs :
        (procs[p].pc = "done" /\ procs[p].op \in {"health_check", "mongodb_health_check"}
            /\ ~procs[p].params.reachable)
        => /\ procs[p].result[1].status # "healthy"
           /\ (procs[p].op = "health_check" /\ procs[p].params.sqlite_ok)
                  => /\ procs[p].result[1].status = "partial"
                     /\ procs[p].result[1].mongodb = "disconnected"
                     /\ procs[p].result[1].sqlite = "connected"
           /\ procs[p].op = "mongodb_health_check"
                  => procs[p].result[1].code = "503" /\ procs[p].outcome = "raised"

C23_Witness ==
    \E p \in Procs :
        /\ procs[p].pc = "done"
        /\ procs[p].op = "health_check"
        /\ procs[p].params.sqlite_ok
        /\ ~procs[p].params.reachable
        /\ procs[p].result[1].status = "partial"
        /\ Len(mongo.patients) > 0

\* the ids with a document in collection t of the secondary store m
DocIds(m, t) == {m[t][i][IdColumn(t)] : i \in DOMAIN m[t]}

\* the ids whose create is writing to collection t in this step
Creating(t) ==
    {procs[p].id : p \in {x \in Procs : /\ Left(x, "mongo")
                                         /\ procs[x].op = "create"
                                         /\ procs[x].table = t}}

\* C24: no step of a coordinator operation gives the secondary store a
\* document for an id other than the id a create is inserting in that step:
\* an update of an id whose insert was lost leaves the id without a
\* document, and no step copies primary rows into the secondary store.
C24_NoReconciliation ==
    [][\A t \in Tables :
          /\ DocIds(mongo', t) \subseteq DocIds(mongo, t) \cup Creating(t)
          /\ \A p \in Procs :
                (Left(p, "mongo") /\ procs[p].op = "update")
                    => DocIds(mongo', procs[p].table) = DocIds(mongo, procs[p].table)]_vars

C24_Witness ==
    \E p \in Procs :
        /\ procs[p].pc = "done"
        /\ procs[p].op = "update"
        /\ procs[p].table = "patients"
        /\ procs[p].outcome = "returned"
        /\ procs[p].mongo_calls > 0
        /\ ~procs[p].mongo_error
        /\ procs[p].id \in DOMAIN db.patients
        /\ procs[p].id \notin DocIds(mongo, "patients")

\* C25: an operation whose primary write committed and that goes on to the
\* secondary write leaves that point only when the secondary call has
\* returned or raised, and then it returns; while the call is pending the
\* operation neither returns nor raises.  When every store call eventually
\* completes, every operation in progress eventually ends.
C25_ReturnsWhenSecondaryCompletes ==
    /\ [][\A p \in Procs :
             (procs[p].pc = "mongo" /\ procs'[p] # procs[p])
             => /\ procs'[p].pc = "done"
                /\ procs'[p].outcome = "returned"
                /\ procs'[p].mongo_calls = procs[p].mongo_calls + 1]_vars
    /\ \A p \in Procs :
          (procs[p].pc \notin {"idle", "done"}) ~> (procs[p].pc = "done")

C25_Witness ==
    \E p \in Procs :
        /\ procs[p].pc = "done"
        /\ procs[p].op = "create"
        /\ procs[p].table = "diagnoses"
        /\ procs[p].wrote
        /\ procs[p].outcome = "returned"
        /\ procs[p].mongo_calls = 1
        /\ procs[p].mongo_error

\* the ranges the entities declare, on the fields a row or a body carries
DeclaredRanges(r) ==
    /\ Has(r, "gender") => r.gender \in {1, 2}
    /\ Has(r, "cholesterol") => r.cholesterol \in {1, 2, 3}
    /\ Has(r, "glucose") => r.glucose \in {1, 2, 3}
    /\ \A f \in {"smoke", "alcohol", "physical_activity", "cardiovascular_disease"} :
          Has(r, f) => r[f] \in {0, 1}
    /\ \A f \in {"age_days", "height", "weight"} : Has(r, f) => r[f] > 0

\* C26: every row of the primary store is inside its declared ranges, and
\* a create or update whose body is outside them is rejected: no
\* connection was opened, neither store was written, the request failed.
C26_RowsInDeclaredRanges ==
    /\ [](\A t \in Tables : \A id \in DOMAIN db[t] : DeclaredRanges(db[t][id]))
    /\ [](\A p \in Procs :
             (http[p].handler # "none" /\ ~DeclaredRanges(http[p].payload))
             => /\ http[p].status = "rejected"
                /\ procs[p].op = "rejected"
                /\ procs[p].conn = "none"
                /\ ~procs[p].wrote
                /\ procs[p].mongo_calls = 0)
    /\ [][\A p \in Procs :
             (http'[p] # http[p] /\ ~DeclaredRanges(http'[p].payload))
             => db' = db /\ mongo' = mongo]_vars

C26_Witness ==
    /\ http["p1"].handler = "update_patient"
    /\ http["p1"].status = "rejected"
    /\ http["p1"].payload = [height |-> 0]
    /\ 1 \in DOMAIN db.patients
    /\ 1 \in DOMAIN db.medical_measurements

\* the score and level calculate_risk_score derives from a row of its SELECT
ScoreOutcome(row) ==
    LET risk_score == risk_score_of(row.p.age_years, row.p.bmi, row.m.ap_hi, row.m.ap_lo,
                                    row.m.cholesterol, row.m.glucose, row.l.smoke,
                                    row.l.alcohol, row.l.physical_activity)
    IN  [risk_score |-> risk_score, risk_level |-> risk_level_of(risk_score)]

BothUpdated(id) ==
    \A p \in Procs :
        /\ procs[p].pc = "done"
        /\ procs[p].op = "update"
        /\ procs[p].table = "patients"
        /\ procs[p].id = id
        /\ procs[p].outcome = "returned"

\* C28: once two concurrent update_patient calls on a patient have both
\* completed, the stored bmi is round(weight / (height / 100) ^ 2, 2) of the
\* stored weight and height and the stored age_years is
\* round(age_days / 365.25, 2) of the stored age_days.
C28_ConcurrentUpdatesKeepDerivedFields ==
    \A id \in DOMAIN db.patients :
        BothUpdated(id) =>
            /\ db.patients[id].bmi = bmi_of(db.patients[id].weight, db.patients[id].height)
            /\ db.patients[id].age_years = age_years_of(db.patients[id].age_days)

\* C29: every medical_measurements, lifestyle_factors and diagnoses row of
\* the primary store references a patient_id that has a patients row.
C29_DependentsReferencePatients ==
    \A t \in DependentTables : \A id \in DOMAIN db[t] :
        db[t][id].patient_id \in DOMAIN db.patients

HealthOps == {"health_check", "mongodb_health_check", "get_mongodb_statistics"}

\* C31: the overall health check, the secondary health check and the
\* secondary statistics leave the contents of the primary and of the
\* secondary store as they were.
C31_HealthChecksReadOnly ==
    [][\A p \in Procs :
          (budget' # budget /\ procs'[p].op \in HealthOps)
              => db' = db /\ mongo' = mongo]_vars

\* the records search_patients_by_disease_mongo serves for a flag, unpaged
Found(has_disease) ==
    LET r == search_patients_by_disease_mongo(mongo, TRUE, has_disease, 0,
                                              Len(mongo.medical_records)).value
    IN  {r[i] : i \in DOMAIN r}

\* C32: with no operation in progress, a diagnosis the coordinator wrote to
\* both stores is found by the filter-by-flag query with its flag value, as
\* a record of its patient, and a patient the coordinator wrote to both
\* stores is served by get_patient_mongo with nested demographics and
\* lifestyle.
C32_CoordinatorWritesVisibleToQueries ==
    (\A p \in Procs : procs[p].pc \in {"idle", "done"}) =>
        /\ \A id \in DOMAIN db.diagnoses :
              id \in DocIds(mongo, "diagnoses") =>
                  \E rec \in Found(db.diagnoses[id].cardiovascular_disease = 1) :
                      rec.patient_id = db.diagnoses[id].patient_id
        /\ \A id \in DOMAIN db.patients :
              id \in DocIds(mongo, "patients") =>
                  LET patient == get_patient_mongo(mongo, TRUE, id).value
                  IN  /\ ~IsNone(patient)
                      /\ Has(patient[1], "demographics")
                      /\ Has(patient[1], "lifestyle")

\* the step in which the UPDATE statement of the update call of p runs
UpdateWriteStep(p) ==
    \/ Left(p, "execute_update")
    \/ /\ StartStep(p)
       /\ procs'[p].op = "update"
       /\ procs'[p].table # "patients"
       /\ DOMAIN procs'[p].update_fields # {}

\* the fields an update of patients sets: those of the payload, age_years
\* with age_days, bmi with height or weight
UpdateFieldsFollowPayload(fields) ==
    /\ fields \subseteq {"age_days", "age_years", "gender", "height", "weight", "bmi"}
    /\ "age_years" \in fields <=> "age_days" \in fields
    /\ "bmi" \in fields => "height" \in fields \/ "weight" \in fields

\* C33: the UPDATE of an update call changes, in the primary store, only
\* the row of its id and in it only the fields it sets (the payload's, and
\* age_years or bmi when the payload supplies what they derive from); every
\* other row and table stays as it was, except that a diagnosis update
\* appends one diagnosis_log entry.
C33_UpdateChangesOnlyItsFields ==
    [][\A p \in Procs :
          UpdateWriteStep(p) =>
              LET t == procs'[p].table
                  id == procs'[p].id
                  fields == DOMAIN procs'[p].update_fields
              IN  /\ t = "patients" => UpdateFieldsFollowPayload(fields)
                  /\ \A u \in Tables \ {t} : db'[u] = db[u]
                  /\ db'.risk_assessments = db.risk_assessments
                  /\ DOMAIN db'[t] = DOMAIN db[t]
                  /\ \A j \in DOMAIN db[t] :
                        /\ j # id => db'[t][j] = db[t][j]
                        /\ \A f \in DOMAIN db[t][j] \ fields : db'[t][j][f] = db[t][j][f]
                  /\ IF t = "diagnoses" /\ db'.diagnosis_log # db.diagnosis_log
                     THEN /\ Len(db'.diagnosis_log) = Len(db.diagnosis_log) + 1
                          /\ SubSeq(db'.diagnosis_log, 1, Len(db.diagnosis_log))
                                 = db.diagnosis_log
                     ELSE db'.diagnosis_log = db.diagnosis_log]_vars

C33_Witness ==
    /\ procs["p1"].pc = "done"
    /\ procs["p1"].op = "update"
    /\ procs["p1"].table = "patients"
    /\ DOMAIN procs["p1"].update_fields = {"gender"}
    /\ procs["p1"].rowcount = 1
    /\ Cardinality(DOMAIN db.patients) = 2
    /\ \E id \in DOMAIN db.patients : db.patients[id].gender = 2

\* the levels in increasing order
LevelRank(level) ==
    CASE level = "LOW" -> 1
      [] level = "MODERATE" -> 2
      [] level = "HIGH" -> 3
      [] level = "CRITICAL" -> 4
      [] OTHER -> 0

\* C34: every stored assessment has a score that is a multiple of 5 between
\* 0 and 135 and a level among LOW, MODERATE, HIGH, CRITICAL, and the level
\* is non-decreasing in the score: no lower score has a higher level and no
\* higher score a lower level.
C34_ScoreRangeAndLevelMonotone ==
    \A i \in DOMAIN db.risk_assessments :
        LET a == db.risk_assessments[i] IN
        /\ a.risk_score % 5 = 0
        /\ a.risk_score \in 0..135
        /\ a.risk_level \in {"LOW", "MODERATE", "HIGH", "CRITICAL"}
        /\ \A other \in 0..135 :
              /\ other <= a.risk_score =>
                     LevelRank(risk_level_of(other)) <= LevelRank(a.risk_level)
              /\ other >= a.risk_score =>
                     LevelRank(risk_level_of(other)) >= LevelRank(a.risk_level)

C34_Witness ==
    /\ \E i \in DOMAIN db.risk_assessments :
          db.risk_assessments[i].risk_score = 70 /\ db.risk_assessments[i].risk_level = "CRITICAL"
    /\ procs["p1"].op = "score"
    /\ procs["p1"].outcome = "returned"

SecondaryUpdates == {"update_patient_in_mongodb", "update_medical_record_in_mongodb"}

\* C35: an update through a secondary endpoint of an id that has no
\* document, the store being reachable, is answered 404.
C35_SecondaryUpdateAbsentIsNotFound ==
    \A p \in Procs :
        (/\ procs[p].pc = "done"
         /\ procs[p].op \in SecondaryUpdates
         /\ procs[p].params.reachable
         /\ procs[p].params.absent)
        => procs[p].params.status = "404"

\* C36: the patients collection never holds two documents made by
\* create_patient_mongo with the same patient_id.
C36_SecondaryCreateKeepsIdUnique ==
    \A id \in PatientIds :
        Cardinality({i \in DOMAIN mongo.patients :
                        /\ Has(mongo.patients[i], "created_at")
                        /\ mongo.patients[i].patient_id = id}) <= 1

====
